---- MODULE Spec2Model ----
(***************************************************************************)
(* Model of confbuilder (src/confbuilder/builder.go): the generic layered  *)
(* configuration builder.  Build clones a default, overlays a JSON file,   *)
(* loads ancestor .env files into the process environment, overlays        *)
(* environment variables through struct tags and validates the result.     *)
(*                                                                         *)
(* Text values (environment values, string fields, JSON strings) are       *)
(* sequences of one-character strings so that parsing, splitting and       *)
(* trimming are computed character by character.  Environment keys, tags   *)
(* and prefixes are strings, joined with \o as the code joins them with +. *)
(***************************************************************************)
EXTENDS Integers, Sequences, FiniteSets, TLC

VARIABLES
    env,        \* process environment: key -> value, DOMAIN = the variables that exist
    cwd,        \* working directory, as its depth below the filesystem root (0 = root)
    heap,       \* backing arrays of []string values: address -> elements
    defaultCfg, \* the caller's default instance: [nil, val]
    builder,    \* Builder[T]: [made, isPointer, config, envPrefix, envTag, envFiles, filepath]
    result,     \* what Build returned: [done, nil, config, err]
    trace,      \* what the last Build did: stages run, keys looked up, files loaded, the heap it left
    pre,        \* the world as it was when the last Build was entered
    history     \* one record per Build call of the process, in call order

vars == <<env, cwd, heap, defaultCfg, builder, result, trace, pre, history>>

---------------------------------------------------------------------------
(* Bounds of the model *)

\* at most this many variables exist in the environment before the program runs
MaxEnvVars == 1
\* the working directory is at most this deep below the filesystem root
MaxDepth == 2
\* at most this many Build calls are made in one process
MaxBuilds == 3

---------------------------------------------------------------------------
(* Text helpers *)

\* the Go string of a character sequence, for error messages
RECURSIVE Str(_)
Str(s) == IF s = <<>> THEN "" ELSE Head(s) \o Str(Tail(s))

Digits == {"0", "1", "2", "3", "4", "5", "6", "7", "8", "9"}

DigitVal(c) == CASE c = "0" -> 0 [] c = "1" -> 1 [] c = "2" -> 2 [] c = "3" -> 3 [] c = "4" -> 4 [] c = "5" -> 5 [] c = "6" -> 6 [] c = "7" -> 7 [] c = "8" -> 8 [] c = "9" -> 9

RECURSIVE DigitsVal(_, _)
DigitsVal(s, acc) == IF s = <<>> THEN acc ELSE DigitsVal(Tail(s), acc * 10 + DigitVal(Head(s)))

AllDigits(s) == s # <<>> /\ \A i \in 1..Len(s) : s[i] \in Digits

\* the digits of the largest magnitudes of 64 bits: math.MaxInt64, -math.MinInt64
\* and math.MaxUint64
MaxInt64Digits == <<"9", "2", "2", "3", "3", "7", "2", "0", "3", "6", "8", "5", "4", "7", "7", "5", "8", "0", "7">>
MinInt64Digits == <<"9", "2", "2", "3", "3", "7", "2", "0", "3", "6", "8", "5", "4", "7", "7", "5", "8", "0", "8">>
MaxUint64Digits == <<"1", "8", "4", "4", "6", "7", "4", "4", "0", "7", "3", "7", "0", "9", "5", "5", "1", "6", "1", "5">>

RECURSIVE StripZeros(_)
StripZeros(s) == IF Len(s) > 1 /\ Head(s) = "0" THEN StripZeros(Tail(s)) ELSE s

\* a <= b for digit sequences of one length
RECURSIVE DigitsLeq(_, _)
DigitsLeq(a, b) ==
    IF a = <<>> THEN TRUE
    ELSE IF DigitVal(Head(a)) # DigitVal(Head(b)) THEN DigitVal(Head(a)) < DigitVal(Head(b))
    ELSE DigitsLeq(Tail(a), Tail(b))

\* whether the number written in digits is at most the one written in limit
FitsIn(digits, limit) ==
    \/ Len(StripZeros(digits)) < Len(limit)
    \/ Len(StripZeros(digits)) = Len(limit) /\ DigitsLeq(StripZeros(digits), limit)

\* a parse of unsigned fields that accepts a sign
ParseUint_Signed(s) ==
    LET signed == s # <<>> /\ Head(s) \in {"+", "-"}
        body == IF signed THEN Tail(s) ELSE s
    IN  IF AllDigits(body)
        THEN [ok |-> TRUE, val |-> IF signed /\ Head(s) = "-" THEN 0 - DigitsVal(body, 0) ELSE DigitsVal(body, 0), err |-> <<>>]
        ELSE [ok |-> FALSE, val |-> 0, err |-> <<"strconv.ParseUint", "parsing \"" \o Str(s) \o "\"", "invalid syntax">>]

\* strconv.ParseUint(s, 10, 64): digits only, no sign; a number above
\* math.MaxUint64 is out of range
ParseUint(s) ==
    IF ~AllDigits(s)
    THEN [ok |-> FALSE, val |-> 0, err |-> <<"strconv.ParseUint", "parsing \"" \o Str(s) \o "\"", "invalid syntax">>]
    ELSE IF ~FitsIn(s, MaxUint64Digits)
    THEN [ok |-> FALSE, val |-> 0, err |-> <<"strconv.ParseUint", "parsing \"" \o Str(s) \o "\"", "value out of range">>]
    ELSE [ok |-> TRUE, val |-> DigitsVal(s, 0), err |-> <<>>]

\* strconv.ParseInt(s, 10, 64): an optional sign, then digits; a number outside
\* math.MinInt64..math.MaxInt64 is out of range
ParseInt(s) ==
    LET signed == s # <<>> /\ Head(s) \in {"+", "-"}
        neg == signed /\ Head(s) = "-"
        body == IF signed THEN Tail(s) ELSE s
    IN  IF ~AllDigits(body)
        THEN [ok |-> FALSE, val |-> 0, err |-> <<"strconv.ParseInt", "parsing \"" \o Str(s) \o "\"", "invalid syntax">>]
        ELSE IF ~FitsIn(body, IF neg THEN MinInt64Digits ELSE MaxInt64Digits)
        THEN [ok |-> FALSE, val |-> 0, err |-> <<"strconv.ParseInt", "parsing \"" \o Str(s) \o "\"", "value out of range">>]
        ELSE [ok |-> TRUE, val |-> IF neg THEN 0 - DigitsVal(body, 0) ELSE DigitsVal(body, 0), err |-> <<>>]

TrueLiterals == {<<"1">>, <<"t">>, <<"T">>, <<"T", "R", "U", "E">>, <<"t", "r", "u", "e">>, <<"T", "r", "u", "e">>}
FalseLiterals == {<<"0">>, <<"f">>, <<"F">>, <<"F", "A", "L", "S", "E">>, <<"f", "a", "l", "s", "e">>, <<"F", "a", "l", "s", "e">>}

\* strconv.ParseBool(s)
ParseBool(s) ==
    IF s \in TrueLiterals THEN [ok |-> TRUE, val |-> TRUE, err |-> <<>>]
    ELSE IF s \in FalseLiterals THEN [ok |-> TRUE, val |-> FALSE, err |-> <<>>]
    ELSE [ok |-> FALSE, val |-> FALSE, err |-> <<"strconv.ParseBool", "parsing \"" \o Str(s) \o "\"", "invalid syntax">>]

\* strings.Split(s, ","): the pieces between commas, empty pieces kept
RECURSIVE SplitComma(_, _, _)
SplitComma(s, cur, out) ==
    IF s = <<>> THEN Append(out, cur)
    ELSE IF Head(s) = "," THEN SplitComma(Tail(s), <<>>, Append(out, cur))
    ELSE SplitComma(Tail(s), Append(cur, Head(s)), out)

IsSpace(c) == c \in {" ", "\t", "\n", "\r"}

RECURSIVE TrimLeft(_)
TrimLeft(s) == IF s # <<>> /\ IsSpace(Head(s)) THEN TrimLeft(Tail(s)) ELSE s

RECURSIVE TrimRight(_)
TrimRight(s) == IF s # <<>> /\ IsSpace(s[Len(s)]) THEN TrimRight(SubSeq(s, 1, Len(s) - 1)) ELSE s

\* a trim of the leading whitespace only
TrimSpace_LeftOnly(s) == TrimLeft(s)

\* strings.TrimSpace(s)
TrimSpace(s) == TrimRight(TrimLeft(s))

\* strings.ToUpper(s), on the ASCII letters
LowerLetters == <<"a", "b", "c", "d", "e", "f", "g", "h", "i", "j", "k", "l", "m", "n", "o", "p", "q", "r", "s", "t", "u", "v", "w", "x", "y", "z">>
UpperLetters == <<"A", "B", "C", "D", "E", "F", "G", "H", "I", "J", "K", "L", "M", "N", "O", "P", "Q", "R", "S", "T", "U", "V", "W", "X", "Y", "Z">>
ToUpperChar(c) ==
    IF \E i \in 1..Len(LowerLetters) : LowerLetters[i] = c
    THEN UpperLetters[CHOOSE i \in 1..Len(LowerLetters) : LowerLetters[i] = c]
    ELSE c
ToUpper(s) == [i \in 1..Len(s) |-> ToUpperChar(s[i])]

\* the number of leading characters of s that are decimal digits
RECURSIVE LeadingDigits(_)
LeadingDigits(s) == IF s # <<>> /\ Head(s) \in Digits THEN 1 + LeadingDigits(Tail(s)) ELSE 0

\* ten to the power n
RECURSIVE Pow10(_)
Pow10(n) == IF n = 0 THEN 1 ELSE 10 * Pow10(n - 1)

\* a float64 as the decimal it denotes: (-1)^neg * mant * 10^exp, mant without
\* trailing zeros.  Exact for the short literals of the model.
RECURSIVE NormFloat(_, _, _)
NormFloat(neg, mant, exp) ==
    IF mant = 0 THEN [neg |-> neg, mant |-> 0, exp |-> 0]
    ELSE IF mant % 10 = 0 THEN NormFloat(neg, mant \div 10, exp + 1)
    ELSE [neg |-> neg, mant |-> mant, exp |-> exp]

\* strconv.ParseFloat(s, 64) on plain decimal literals: an optional sign, digits, an
\* optional "." and digits, at least one digit in all.  The literals of the model
\* use no exponent, no hexadecimal form and no "inf"/"nan".
ParseFloat(s) ==
    LET signed == s # <<>> /\ Head(s) \in {"+", "-"}
        body == IF signed THEN Tail(s) ELSE s
        n == LeadingDigits(body)
        rest == SubSeq(body, n + 1, Len(body))
        dotted == rest # <<>> /\ Head(rest) = "."
        frac == IF dotted THEN Tail(rest) ELSE rest
        m == LeadingDigits(frac)
        wellFormed == m = Len(frac) /\ n + m > 0 /\ (dotted \/ rest = <<>>)
    IN  IF wellFormed
        THEN [ok |-> TRUE,
              val |-> NormFloat(signed /\ Head(s) = "-",
                                DigitsVal(SubSeq(body, 1, n), 0) * Pow10(m) + DigitsVal(frac, 0), 0 - m),
              err |-> <<>>]
        ELSE [ok |-> FALSE, val |-> NormFloat(FALSE, 0, 0),
              err |-> <<"strconv.ParseFloat", "parsing \"" \o Str(s) \o "\"", "invalid syntax">>]

\* a time.Duration is held in milliseconds: the literals and values of the model are
\* whole milliseconds, and the units below the millisecond are not used
DurationUnits == [ms |-> 1, s |-> 1000, m |-> 60000, h |-> 3600000]

\* the number of leading characters of s that belong to a unit name: those before
\* the next "." or digit
RECURSIVE LeadingUnit(_)
LeadingUnit(s) == IF s # <<>> /\ Head(s) \notin Digits \cup {"."} THEN 1 + LeadingUnit(Tail(s)) ELSE 0

\* the loop of time.ParseDuration over the groups number[.fraction]unit of s; orig is
\* the whole literal, for the error text
RECURSIVE parseDurationGroups(_, _, _)
parseDurationGroups(s, d, orig) ==
    IF s = <<>> THEN [ok |-> TRUE, val |-> d, err |-> <<>>]
    ELSE LET invalid == [ok |-> FALSE, val |-> 0, err |-> <<"time: invalid duration \"" \o Str(orig) \o "\"">>]
             n == LeadingDigits(s)
             afterInt == SubSeq(s, n + 1, Len(s))
             dotted == afterInt # <<>> /\ Head(afterInt) = "."
             afterDot == IF dotted THEN Tail(afterInt) ELSE afterInt
             m == IF dotted THEN LeadingDigits(afterDot) ELSE 0
             afterNum == SubSeq(afterDot, m + 1, Len(afterDot))
             u == LeadingUnit(afterNum)
             unit == Str(SubSeq(afterNum, 1, u))
         IN  IF Head(s) \notin Digits \cup {"."} THEN invalid
             ELSE IF n = 0 /\ m = 0 THEN invalid
             ELSE IF u = 0
             THEN [ok |-> FALSE, val |-> 0, err |-> <<"time: missing unit in duration \"" \o Str(orig) \o "\"">>]
             ELSE IF unit \notin DOMAIN DurationUnits
             THEN [ok |-> FALSE, val |-> 0,
                   err |-> <<"time: unknown unit \"" \o unit \o "\" in duration \"" \o Str(orig) \o "\"">>]
             ELSE parseDurationGroups(SubSeq(afterNum, u + 1, Len(afterNum)),
                      d + DigitsVal(SubSeq(s, 1, n), 0) * DurationUnits[unit]
                        + (DigitsVal(SubSeq(afterDot, 1, m), 0) * DurationUnits[unit]) \div Pow10(m),
                      orig)

\* time.ParseDuration(s): an optional sign, then "0" or one or more groups
ParseDuration(s) ==
    LET signed == s # <<>> /\ Head(s) \in {"+", "-"}
        body == IF signed THEN Tail(s) ELSE s
        r == parseDurationGroups(body, 0, s)
    IN  IF body = <<"0">> THEN [ok |-> TRUE, val |-> 0, err |-> <<>>]
        ELSE IF body = <<>> THEN [ok |-> FALSE, val |-> 0, err |-> <<"time: invalid duration \"" \o Str(s) \o "\"">>]
        ELSE IF r.ok /\ signed /\ Head(s) = "-" THEN [r EXCEPT !.val = 0 - r.val]
        ELSE r

\* slog.Level: the named levels, and (*Level).UnmarshalText(text): a name in any
\* case, optionally followed by a signed offset
LevelNames == [DEBUG |-> 0 - 4, INFO |-> 0, WARN |-> 4, ERROR |-> 8]

RECURSIVE IndexAnySign(_, _)
IndexAnySign(s, i) == IF i > Len(s) THEN 0 ELSE IF s[i] \in {"+", "-"} THEN i ELSE IndexAnySign(s, i + 1)

LevelUnmarshalText(s) ==
    LET i == IndexAnySign(s, 1)
        name == Str(ToUpper(IF i > 0 THEN SubSeq(s, 1, i - 1) ELSE s))
        offset == IF i > 0 THEN ParseInt(SubSeq(s, i, Len(s))) ELSE [ok |-> TRUE, val |-> 0, err |-> <<>>]
    IN  IF ~offset.ok THEN [ok |-> FALSE, val |-> 0, err |-> <<"slog: level string \"" \o Str(s) \o "\"", "strconv.Atoi">>]
        ELSE IF name \notin DOMAIN LevelNames
        THEN [ok |-> FALSE, val |-> 0, err |-> <<"slog: level string \"" \o Str(s) \o "\"", "unknown name">>]
        ELSE [ok |-> TRUE, val |-> LevelNames[name] + offset.val, err |-> <<>>]

---------------------------------------------------------------------------
(* The configuration type T: a tree of field descriptors in declaration    *)
(* order, as reflect.Type presents it.  tags is the struct tag (key ->     *)
(* value); rules is the parsed validate tag; elem is the field list of a   *)
(* struct-kinded field.                                                    *)

Field(name, gotype, kind, exported, tags, rules, elem) ==
    [name |-> name, gotype |-> gotype, kind |-> kind, exported |-> exported, tags |-> tags, rules |-> rules, elem |-> elem]

Required == [rule |-> "required", n |-> 0]
Min(n) == [rule |-> "min", n |-> n]
Max(n) == [rule |-> "max", n |-> n]
DiveMin(n) == [rule |-> "dive,min", n |-> n]

NoTags == [k \in {} |-> ""]

ServerConfig ==
    << Field("Name", "string", "string", TRUE, [json |-> "name", env |-> "NAME", cfg |-> "NAME"], <<>>, <<>>) >>

DatabaseConfig ==
    << Field("Host", "string", "string", TRUE, [json |-> "host", env |-> "HOST", cfg |-> "HOST"], <<Required>>, <<>>),
       Field("Port", "int", "int", TRUE, [json |-> "port", env |-> "PORT"], <<Required, Min(1), Max(65535)>>, <<>>),
       Field("Server", "ServerConfig", "struct", TRUE, [json |-> "server", env |-> "SERVER"], <<>>, ServerConfig) >>

NestedConfig ==
    << Field("Value", "string", "string", TRUE, [env |-> "VALUE", cfg |-> "VALUE"], <<>>, <<>>),
       Field("Server", "ServerConfig", "struct", TRUE, [env |-> "SRV"], <<>>, ServerConfig) >>

TestConfig ==
    << Field("AppName", "string", "string", TRUE, [json |-> "app_name", env |-> "APP_NAME", cfg |-> "APP_NAME"], <<Required>>, <<>>),
       Field("Port", "int", "int", TRUE, [json |-> "port", env |-> "PORT"], <<Required, Min(1), Max(65535)>>, <<>>),
       Field("MaxConns", "uint", "uint", TRUE, [json |-> "max_conns", env |-> "MAX_CONNS"], <<Min(1), Max(10000)>>, <<>>),
       Field("LoadFactor", "float64", "float", TRUE, [json |-> "load_factor", env |-> "LOAD_FACTOR"], <<>>, <<>>),
       Field("Retries", "int8", "int", TRUE, [json |-> "retries", env |-> "RETRIES"], <<>>, <<>>),
       Field("Batch", "uint16", "uint", TRUE, [json |-> "batch", env |-> "BATCH"], <<>>, <<>>),
       Field("Enabled", "bool", "bool", TRUE, [json |-> "enabled", env |-> "ENABLED", cfg |-> ""], <<>>, <<>>),
       Field("LogLevel", "slog.Level", "int", TRUE, [json |-> "log_level", env |-> "LOG_LEVEL"], <<>>, <<>>),
       Field("Timeout", "time.Duration", "int", TRUE, [json |-> "timeout", env |-> "TIMEOUT"], <<Required>>, <<>>),
       Field("Tags", "[]string", "slice", TRUE, [json |-> "tags", env |-> "TAGS"], <<Required, Min(1), DiveMin(1)>>, <<>>),
       Field("Database", "DatabaseConfig", "struct", TRUE, [json |-> "database", env |-> "DB", cfg |-> "D"], <<>>, DatabaseConfig),
       Field("Nested", "NestedConfig", "struct", TRUE, [cfg |-> ""], <<>>, NestedConfig),
       Field("InternalID", "string", "string", TRUE, [json |-> "internal_id"], <<>>, <<>>),
       Field("unexported", "string", "string", FALSE, NoTags, <<>>, <<>>) >>

\* a lookup of the "env" tag whatever tag key the builder was given
TagLookup_HardCodedEnv(field, key) ==
    IF "env" \in DOMAIN field.tags THEN [value |-> field.tags["env"], ok |-> TRUE] ELSE [value |-> "", ok |-> FALSE]

\* reflect.StructTag.Lookup(key)
TagLookup(field, key) ==
    IF key \in DOMAIN field.tags THEN [value |-> field.tags[key], ok |-> TRUE] ELSE [value |-> "", ok |-> FALSE]

\* a []string value: the address of its backing array (0 = nil) and its length
NilSlice == [arr |-> 0, len |-> 0]

\* the zero value of a field of the given kind, and of a struct type
RECURSIVE ZeroValue(_)
ZeroOf(field) ==
    CASE field.kind = "string" -> <<>>
      [] field.kind \in {"int", "uint"} -> 0
      [] field.kind = "float" -> NormFloat(FALSE, 0, 0)
      [] field.kind = "bool" -> FALSE
      [] field.kind = "slice" -> NilSlice
      [] field.kind = "struct" -> ZeroValue(field.elem)
ZeroValue(t) == [n \in {t[i].name : i \in 1..Len(t)} |-> ZeroOf(CHOOSE f \in {t[i] : i \in 1..Len(t)} : f.name = n)]

\* newTestConfig(): the default of the tests; its slices live in the heap
\* (address 1 holds the elements of Tags)
newTestConfig ==
    [ AppName |-> <<"a", "p", "p">>, Port |-> 80, MaxConns |-> 100, LoadFactor |-> NormFloat(FALSE, 1, 0),
      Retries |-> 3, Batch |-> 10,
      Enabled |-> TRUE, LogLevel |-> LevelNames["INFO"], Timeout |-> 30 * DurationUnits["s"],
      Tags |-> [arr |-> 1, len |-> 1],
      Database |-> [Host |-> <<"h">>, Port |-> 5432, Server |-> [Name |-> <<"s">>]],
      Nested |-> [Value |-> <<"v">>, Server |-> [Name |-> <<"n">>]], InternalID |-> <<"i">>, unexported |-> <<"u">> ]

InitHeap == << << <<"d">> >> >>

\* the defaults a caller passes to New: the tests' default, and that default with a
\* required field emptied
Defaults ==
    { newTestConfig,
      [newTestConfig EXCEPT !.AppName = <<>>] }

\* the elements of a slice value
Elems(h, s) == IF s.arr = 0 THEN <<>> ELSE SubSeq(h[s.arr], 1, s.len)

\* a struct value with every slice replaced by its elements: what the caller
\* observes when reading the configuration
RECURSIVE View(_, _, _)
ViewOf(field, x, h) ==
    CASE field.kind = "slice" -> Elems(h, x)
      [] field.kind = "struct" -> View(field.elem, x, h)
      [] OTHER -> x
View(t, v, h) == [n \in DOMAIN v |-> ViewOf(CHOOSE f \in {t[i] : i \in 1..Len(t)} : f.name = n, v[n], h)]

---------------------------------------------------------------------------
(* copier.Copy(target, b.config), without the DeepCopy option: every field *)
(* of the source, unexported ones included, is assigned to the target.  A  *)
(* slice field is assigned as a slice header, so the copy's slice shares   *)
(* the source's backing array.                                             *)

copierCopy(src) == [v |-> src, err |-> <<>>]

---------------------------------------------------------------------------
(* The JSON files on disk and json.Unmarshal(data, target)                 *)

\* os.ReadFile(path): the payload of each path; a path not listed does not exist.
\* "bad.json" is not valid JSON; the others are objects (key -> value).
ConfigFiles ==
    [ f \in {"bad.json", "conf.json", "zero.json"} |->
        CASE f = "bad.json" -> [valid |-> FALSE, doc |-> <<>>]
          [] f = "conf.json" ->
               [valid |-> TRUE,
                doc |-> [ app_name |-> <<"f", "i", "l", "e">>, enabled |-> FALSE,
                          max_conns |-> 9, timeout |-> 2 * DurationUnits["s"],
                          tags |-> << <<"x">>, <<"y">> >>,
                          database |-> [ host |-> <<"f", "d", "b">> ],
                          internal_id |-> <<"f", "i", "d">> ]]
          [] f = "zero.json" ->
               [valid |-> TRUE,
                doc |-> [ port |-> 0, tags |-> << >>, database |-> [ host |-> <<>> ] ]] ]

\* the file paths File is called with: a missing file and the files above
FilePaths == {"missing.json"} \cup DOMAIN ConfigFiles

\* the JSON key of a field: its json tag, else its name
jsonKey(field) == IF "json" \in DOMAIN field.tags THEN field.tags["json"] ELSE field.name

\* decoding a JSON array into a []string field: the existing backing array is
\* reused (elements are stored in place) up to its capacity, a larger array is
\* allocated when it is full, and the length is set to the number of elements;
\* an empty array yields a fresh empty slice
RECURSIVE jsonArray(_, _, _, _)
jsonArray(h, s, elems, i) ==
    LET cap == IF s.arr = 0 THEN 0 ELSE Len(h[s.arr]) IN
    IF i > Len(elems)
    THEN IF Len(elems) = 0
         THEN [heap |-> Append(h, <<>>), v |-> [arr |-> Len(h) + 1, len |-> 0]]
         ELSE [heap |-> h, v |-> [arr |-> s.arr, len |-> Len(elems)]]
    ELSE IF i > cap
         THEN \* v.Grow(1): a new array holding the old elements
              LET old == IF s.arr = 0 THEN <<>> ELSE h[s.arr]
                  h2 == Append(h, Append(old, elems[i]))
              IN  jsonArray(h2, [arr |-> Len(h2), len |-> i], elems, i + 1)
         ELSE jsonArray([h EXCEPT ![s.arr][i] = elems[i]], [arr |-> s.arr, len |-> IF i > s.len THEN i ELSE s.len], elems, i + 1)

\* decoding a JSON object into a struct: only the keys present are overlaid;
\* unexported fields are not decoded
RECURSIVE jsonObject(_, _, _, _, _)
jsonObject(t, v, doc, h, i) ==
    IF i > Len(t) THEN [v |-> v, heap |-> h]
    ELSE LET field == t[i]
             key == jsonKey(field)
         IN  IF ~field.exported \/ key \notin DOMAIN doc
             THEN jsonObject(t, v, doc, h, i + 1)
             ELSE IF field.kind = "struct"
                  THEN LET sub == jsonObject(field.elem, v[field.name], doc[key], h, 1)
                       IN  jsonObject(t, [v EXCEPT ![field.name] = sub.v], doc, sub.heap, i + 1)
                  ELSE IF field.kind = "slice"
                  THEN LET arr == jsonArray(h, v[field.name], doc[key], 1)
                       IN  jsonObject(t, [v EXCEPT ![field.name] = arr.v], doc, arr.heap, i + 1)
                  ELSE jsonObject(t, [v EXCEPT ![field.name] = doc[key]], doc, h, i + 1)

\* a decoder whose result is dropped: the target keeps its cloned values
jsonUnmarshal_Discards(t, v, data, h) ==
    [v |-> v, heap |-> h, err |-> IF data.valid THEN <<>> ELSE <<"invalid character 'i' looking for beginning of object key string">>]

\* json.Unmarshal: a payload that is not valid JSON is rejected before anything
\* is stored
jsonUnmarshal(t, v, data, h) ==
    IF ~data.valid THEN [v |-> v, heap |-> h, err |-> <<"invalid character 'i' looking for beginning of object key string">>]
    ELSE LET r == jsonObject(t, v, data.doc, h, 1) IN [v |-> r.v, heap |-> r.heap, err |-> <<>>]

---------------------------------------------------------------------------
(* validator.New().Struct(target): the rules of the validate tags, nested  *)
(* structs included, unexported fields skipped                             *)

\* whether a value satisfies one rule of its field
RuleHolds(field, rule, x, h) ==
    CASE rule.rule = "required" ->
           ( CASE field.kind = "string" -> x # <<>>
               [] field.kind \in {"int", "uint"} -> x # 0
               [] field.kind = "bool" -> x
               [] field.kind = "slice" -> x.arr # 0 )
      [] rule.rule = "min" ->
           ( CASE field.kind = "string" -> Len(x) >= rule.n
               [] field.kind \in {"int", "uint"} -> x >= rule.n
               [] field.kind = "slice" -> x.len >= rule.n )
      [] rule.rule = "max" ->
           ( CASE field.kind = "string" -> Len(x) <= rule.n
               [] field.kind \in {"int", "uint"} -> x <= rule.n
               [] field.kind = "slice" -> x.len <= rule.n )
      [] rule.rule = "dive,min" ->
           \A j \in 1..x.len : Len(h[x.arr][j]) >= rule.n

\* the first rule of a field that its value violates, in tag order
\* (the validator reports one failure per field), or "" when none does
RECURSIVE FirstViolation(_, _, _, _, _)
FirstViolation(field, rules, x, h, j) ==
    IF j > Len(rules) THEN ""
    ELSE IF ~RuleHolds(field, rules[j], x, h) THEN rules[j].rule
    ELSE FirstViolation(field, rules, x, h, j + 1)

\* the failures of a struct, in field order: "Field:rule"
RECURSIVE Violations(_, _, _, _)
Violations(t, v, h, i) ==
    IF i > Len(t) THEN <<>>
    ELSE LET field == t[i]
             here == IF ~field.exported THEN <<>>
                     ELSE IF field.kind = "struct" THEN Violations(field.elem, v[field.name], h, 1)
                     ELSE LET bad == FirstViolation(field, field.rules, v[field.name], h, 1)
                          IN  IF bad = "" THEN <<>> ELSE << field.name \o ":" \o bad >>
         IN  here \o Violations(t, v, h, i + 1)

\* a validation that is never carried out
validateStruct_Skipped(t, v, h) == <<>>

validateStruct(t, v, h) == Violations(t, v, h, 1)

---------------------------------------------------------------------------
(* The process environment and the .env files of the directory tree        *)

\* os.Getenv(key): the value, or "" when the variable does not exist
Getenv(e, key) == IF key \in DOMAIN e THEN e[key] ELSE <<>>

NoVars == [k \in {} |-> <<>>]

\* the files of the directory at each depth on the path from the root to the
\* deepest working directory: [exists, valid, vars].  A file that exists and is not
\* valid cannot be parsed by godotenv.
NoFile == [exists |-> FALSE, valid |-> FALSE, vars |-> NoVars]
EnvFile(vs) == [exists |-> TRUE, valid |-> TRUE, vars |-> vs]
BadEnvFile == [exists |-> TRUE, valid |-> FALSE, vars |-> NoVars]

EnvFileAt(dir, name) ==
    CASE dir = 0 /\ name = ".env" -> EnvFile([T_PORT |-> <<"1", "1">>, T_APP_NAME |-> <<"r", "o", "o", "t">>,
                                               T_DB |-> <<"x">>, PORT |-> <<"9", "1">>,
                                               T_INTERNAL_ID |-> <<"z">>, T_INTERNALID |-> <<"z">>, T_UNEXPORTED |-> <<"z">>])
      [] dir = 1 /\ name = ".env" -> EnvFile([T_PORT |-> <<"2", "2">>, T_VALUE |-> <<"o", "n", "e">>, T_DB_HOST |-> <<>>])
      [] dir = 1 /\ name = ".env.local" -> EnvFile([T_PORT |-> <<"3", "3">>, T_DB_HOST |-> <<"l", "o", "c">>])
      [] dir = 1 /\ name = ".env.test" -> EnvFile([T_ENABLED |-> <<"n", "o">>, T_TAGS |-> <<"x", ",", " ", "y">>])
      [] dir = 2 /\ name = ".env.local" -> BadEnvFile
      [] dir = 2 /\ name = ".env.test" -> EnvFile([T_TAGS |-> <<"t">>, T_D_NAME |-> <<"d", "n">>, T_SRV_NAME |-> <<"s", "r", "v">>])
      [] dir >= 3 /\ name = ".env" -> EnvFile([T_APP_NAME |-> <<"d", "e", "e", "p">>, T_NAME |-> <<"n", "m">>])
      [] OTHER -> NoFile

\* godotenv.Overload in place of godotenv.Load: the file's variables replace those
\* that exist
godotenvLoad_Overload(e, file) ==
    IF ~file.valid THEN [env |-> e, err |-> <<"unexpected character in variable name">>]
    ELSE [env |-> [k \in DOMAIN e \cup DOMAIN file.vars |-> IF k \in DOMAIN file.vars THEN file.vars[k] ELSE e[k]], err |-> <<>>]

\* a load that also sets the variables that exist with an empty value
godotenvLoad_FillsEmpty(e, file) ==
    IF ~file.valid THEN [env |-> e, err |-> <<"unexpected character in variable name">>]
    ELSE [env |-> [k \in DOMAIN e \cup DOMAIN file.vars |-> IF k \in DOMAIN e /\ (e[k] # <<>> \/ k \notin DOMAIN file.vars) THEN e[k] ELSE file.vars[k]],
          err |-> <<>>]

\* godotenv.Load(path): every variable of the file that does not yet exist in the
\* environment is set; a variable that exists, whatever its value, is left alone.
\* A file that cannot be parsed sets nothing and is an error.
godotenvLoad(e, file) ==
    IF ~file.valid THEN [env |-> e, err |-> <<"unexpected character in variable name">>]
    ELSE [env |-> [k \in DOMAIN e \cup DOMAIN file.vars |-> IF k \in DOMAIN e THEN e[k] ELSE file.vars[k]], err |-> <<>>]

\* filepath.Dir(dir): the parent directory; the root is its own parent
Dir(dir) == IF dir = 0 THEN 0 ELSE dir - 1

\* the inner loop of loadEnvFromAncestors: the candidate files of one directory,
\* in the order given; a file that godotenv cannot load is skipped
RECURSIVE loadEnvFromDir(_, _, _, _)
loadEnvFromDir(dir, filesToTry, i, acc) ==
    IF i > Len(filesToTry) THEN acc
    ELSE LET file == EnvFileAt(dir, filesToTry[i])
             r == godotenvLoad(acc.env, file)
         IN  IF file.exists /\ r.err = <<>>
             THEN loadEnvFromDir(dir, filesToTry, i + 1, [acc EXCEPT !.env = r.env, !.loaded = Append(@, <<dir, filesToTry[i]>>)])
             ELSE loadEnvFromDir(dir, filesToTry, i + 1, acc)

\* a search that stops at the first directory in which a file was loaded
RECURSIVE loadEnvFromDirs_StopsAtFirstMatch(_, _, _)
loadEnvFromDirs_StopsAtFirstMatch(dir, filesToTry, acc) ==
    LET here == loadEnvFromDir(dir, filesToTry, 1, [acc EXCEPT !.visited = Append(@, dir)])
        parentDir == Dir(dir)
    IN  IF parentDir = dir \/ here.loaded # acc.loaded THEN here ELSE loadEnvFromDirs_StopsAtFirstMatch(parentDir, filesToTry, here)

\* the outer loop of loadEnvFromAncestors: the directory, then its parent, until
\* the root has been done
RECURSIVE loadEnvFromDirs(_, _, _)
loadEnvFromDirs(dir, filesToTry, acc) ==
    LET here == loadEnvFromDir(dir, filesToTry, 1, [acc EXCEPT !.visited = Append(@, dir)])
        parentDir == Dir(dir)
    IN  IF parentDir = dir THEN here ELSE loadEnvFromDirs(parentDir, filesToTry, here)

\* loadEnvFromAncestors(filesToTry...): os.Getwd fails when the working directory
\* cannot be read (cwd < 0)
loadEnvFromAncestors(filesToTry, e, wd) ==
    IF wd < 0 THEN [env |-> e, err |-> <<"getwd: no such file or directory">>, loaded |-> <<>>, visited |-> <<>>]
    ELSE loadEnvFromDirs(wd, filesToTry, [env |-> e, err |-> <<>>, loaded |-> <<>>, visited |-> <<>>])

---------------------------------------------------------------------------
(* loadEnvToStruct(target, prefix, tag, parentEnvPath)                     *)
(* acc is the target and what the call has done so far: [v, heap, err,     *)
(* lookups]; path, the names of the enclosing fields, only labels the      *)
(* entries of lookups.                                                     *)

\* the width in bits of an integer type
Bits(gotype) ==
    CASE gotype \in {"int8", "uint8"} -> 8
      [] gotype \in {"int16", "uint16"} -> 16
      [] OTHER -> 64

\* 2^n
RECURSIVE Pow2(_)
Pow2(n) == IF n = 0 THEN 1 ELSE 2 * Pow2(n - 1)

\* a store that clamps the value to the range of the field's type
SetInt_Saturates(field, x) ==
    IF Bits(field.gotype) = 64 THEN x
    ELSE IF x > Pow2(Bits(field.gotype) - 1) - 1 THEN Pow2(Bits(field.gotype) - 1) - 1
    ELSE IF x < 0 - Pow2(Bits(field.gotype) - 1) THEN 0 - Pow2(Bits(field.gotype) - 1)
    ELSE x

\* reflect.Value.SetInt(x): the field receives int8(x), int16(x), ..., the low bits
\* of x read as a signed number of the field's width
SetInt(field, x) ==
    IF Bits(field.gotype) = 64 THEN x
    ELSE IF x % Pow2(Bits(field.gotype)) >= Pow2(Bits(field.gotype) - 1)
    THEN (x % Pow2(Bits(field.gotype))) - Pow2(Bits(field.gotype))
    ELSE x % Pow2(Bits(field.gotype))

\* reflect.Value.SetUint(x): the field receives uint8(x), uint16(x), ...
SetUint(field, x) ==
    IF Bits(field.gotype) = 64 THEN x ELSE x % Pow2(Bits(field.gotype))

\* the switch on fieldValue.Kind(): the field's new value, or the error
setField(field, envVar, envValue, x, h) ==
    CASE field.kind = "string" -> [v |-> envValue, heap |-> h, err |-> <<>>]
      [] field.kind = "int" /\ field.gotype = "time.Duration" ->
           LET r == ParseDuration(envValue)
           IN  IF r.ok THEN [v |-> r.val, heap |-> h, err |-> <<>>]
               ELSE [v |-> x, heap |-> h, err |-> <<"invalid duration value for " \o envVar>> \o r.err]
      [] field.kind = "int" /\ field.gotype = "slog.Level" ->
           LET r == LevelUnmarshalText(ToUpper(envValue))
           IN  IF r.ok THEN [v |-> r.val, heap |-> h, err |-> <<>>]
               ELSE [v |-> x, heap |-> h, err |-> <<"invalid slog level value for " \o envVar \o ": " \o Str(envValue)>>]
      [] field.kind = "int" /\ field.gotype \notin {"time.Duration", "slog.Level"} ->
           LET r == ParseInt(envValue)
           IN  IF r.ok THEN [v |-> SetInt(field, r.val), heap |-> h, err |-> <<>>]
               ELSE [v |-> x, heap |-> h, err |-> <<"invalid integer value for " \o envVar>> \o r.err]
      [] field.kind = "uint" ->
           LET r == ParseUint(envValue)
           IN  IF r.ok THEN [v |-> SetUint(field, r.val), heap |-> h, err |-> <<>>]
               ELSE [v |-> x, heap |-> h, err |-> <<"invalid unsigned integer value for " \o envVar>> \o r.err]
      [] field.kind = "float" ->
           LET r == ParseFloat(envValue)
           IN  IF r.ok THEN [v |-> r.val, heap |-> h, err |-> <<>>]
               ELSE [v |-> x, heap |-> h, err |-> <<"invalid float value for " \o envVar>> \o r.err]
      [] field.kind = "bool" ->
           LET r == ParseBool(envValue)
           IN  IF r.ok THEN [v |-> r.val, heap |-> h, err |-> <<>>]
               ELSE [v |-> x, heap |-> h, err |-> <<"invalid boolean value for " \o envVar>> \o r.err]
      [] field.kind = "slice" ->
           IF field.gotype = "[]string"
           THEN LET split == SplitComma(envValue, <<>>, <<>>)
                    parts == [j \in 1..Len(split) |-> TrimSpace(split[j])]
                IN  [v |-> [arr |-> Len(h) + 1, len |-> Len(parts)], heap |-> Append(h, parts), err |-> <<>>]
           ELSE [v |-> x, heap |-> h, err |-> <<>>]
      [] OTHER -> [v |-> x, heap |-> h, err |-> <<>>]

\* a path that keeps only the struct field's own tag, dropping its ancestors'
newEnvPath_DropsParent(field, tag, parentEnvPath) ==
    LET t == TagLookup(field, tag)
    IN  IF t.ok /\ t.value # "" THEN t.value ELSE parentEnvPath

\* the path handed down to the fields of a struct field
newEnvPath(field, tag, parentEnvPath) ==
    LET t == TagLookup(field, tag)
    IN  IF t.ok /\ t.value # ""
        THEN IF parentEnvPath = "" THEN t.value ELSE parentEnvPath \o "_" \o t.value
        ELSE parentEnvPath

\* the name looked up for a tagged field
fullEnvVar(envVar, parentEnvPath) ==
    IF parentEnvPath = "" THEN envVar ELSE parentEnvPath \o "_" \o envVar

\* an overlay that applies empty values too
skipEmpty_Never(envValue) == FALSE

\* "Get value from environment or skip if empty"
skipEmpty(envValue) == envValue = <<>>

\* a failure of a nested struct passed on as it is
wrapSubError_Unwrapped(field, err) == err

\* fmt.Errorf("error loading sub config field %s: %w", field.Name, err)
wrapSubError(field, err) == <<"error loading sub config field " \o field.name>> \o err

RECURSIVE loadEnvToStruct(_, _, _, _, _, _, _, _)
loadEnvToStruct(t, i, acc, e, prefix, tag, parentEnvPath, path) ==
    IF i > Len(t) \/ acc.err # <<>> THEN acc
    ELSE
    LET field == t[i]
        x == acc.v[field.name]
        \* the recursion into a struct field
        sub == loadEnvToStruct(field.elem, 1, [acc EXCEPT !.v = x], e, prefix, tag,
                               newEnvPath(field, tag, parentEnvPath), Append(path, field.name))
        rec == IF field.kind = "struct" /\ field.gotype # "time.Duration"
               THEN [ v |-> [acc.v EXCEPT ![field.name] = sub.v], heap |-> sub.heap, lookups |-> sub.lookups,
                      err |-> IF sub.err = <<>> THEN <<>> ELSE wrapSubError(field, sub.err) ]
               ELSE acc
        envVar == TagLookup(field, tag)
        key == prefix \o fullEnvVar(envVar.value, parentEnvPath)
        envValue == Getenv(e, key)
        looked == [rec EXCEPT !.lookups = Append(@, [path |-> Append(path, field.name), key |-> key, value |-> envValue])]
        set == setField(field, envVar.value, envValue, rec.v[field.name], rec.heap)
    IN  IF ~field.exported THEN loadEnvToStruct(t, i + 1, acc, e, prefix, tag, parentEnvPath, path)
        ELSE IF rec.err # <<>> THEN rec
        ELSE IF ~envVar.ok \/ envVar.value = "" THEN loadEnvToStruct(t, i + 1, rec, e, prefix, tag, parentEnvPath, path)
        ELSE IF skipEmpty(envValue) THEN loadEnvToStruct(t, i + 1, looked, e, prefix, tag, parentEnvPath, path)
        ELSE loadEnvToStruct(t, i + 1,
                 [looked EXCEPT !.v = [@ EXCEPT ![field.name] = set.v], !.heap = set.heap, !.err = set.err],
                 e, prefix, tag, parentEnvPath, path)

---------------------------------------------------------------------------
(* Builder.Build                                                           *)

\* what one run of Build returns and what it did; merged is the target as Build
\* left it, read through the heap
Outcome(config, err, e, h, stages, afterFile, overlay, files) ==
    [ config |-> config, err |-> err, env |-> e, heap |-> h, stages |-> stages, afterFile |-> afterFile,
      merged |-> View(TestConfig, config.val, h),
      lookups |-> overlay.lookups, loaded |-> files.loaded, visited |-> files.visited ]

NoOverlay == [lookups |-> <<>>]
NoFiles == [loaded |-> <<>>, visited |-> <<>>]

\* a Build without the nil check
nilSource_Never(b) == FALSE

\* "Check if the source config is nil (for pointer types)"
nilSource(b) == b.isPointer /\ b.config.nil

\* The stages of Build in the order of the code; each failure returns config as it
\* is at that point.  Each operator below is Build from one stage on, given what the
\* stages before it produced.

\* validator.New().Struct(target), and the return
BuildValidate(parsed, files, overlay, failures, stages) ==
    IF failures # <<>>
    THEN Outcome([nil |-> FALSE, val |-> overlay.v], <<"invalid configuration">> \o failures, files.env, overlay.heap,
                 stages \o <<"envfiles", "overlay", "validate">>, View(TestConfig, parsed.v, parsed.heap), overlay, files)
    ELSE Outcome([nil |-> FALSE, val |-> overlay.v], <<>>, files.env, overlay.heap,
                 stages \o <<"envfiles", "overlay", "validate">>, View(TestConfig, parsed.v, parsed.heap), overlay, files)

\* a Build that validates whatever the overlay left and reports the rule failures
\* ahead of the overlay's error
BuildOverlay_ValidatesFirst(parsed, files, overlay, stages) ==
    IF validateStruct(TestConfig, overlay.v, overlay.heap) # <<>>
    THEN BuildValidate(parsed, files, overlay, validateStruct(TestConfig, overlay.v, overlay.heap), stages)
    ELSE IF overlay.err # <<>>
    THEN Outcome([nil |-> FALSE, val |-> overlay.v], <<"failed to override configuration from environment">> \o overlay.err,
                 files.env, overlay.heap, stages \o <<"envfiles", "overlay">>, View(TestConfig, parsed.v, parsed.heap), overlay, files)
    ELSE BuildValidate(parsed, files, overlay, <<>>, stages)

\* the result of loadEnvToStruct(target, b.envPrefix, b.envTag, "")
BuildOverlay(parsed, files, overlay, stages) ==
    IF overlay.err # <<>>
    THEN Outcome([nil |-> FALSE, val |-> overlay.v], <<"failed to override configuration from environment">> \o overlay.err,
                 files.env, overlay.heap, stages \o <<"envfiles", "overlay">>, View(TestConfig, parsed.v, parsed.heap), overlay, files)
    ELSE BuildValidate(parsed, files, overlay, validateStruct(TestConfig, overlay.v, overlay.heap), stages)

\* the result of loadEnvFromAncestors(b.envFiles...)
BuildEnvFiles(b, parsed, files, stages) ==
    IF files.err # <<>>
    THEN Outcome([nil |-> FALSE, val |-> parsed.v], <<"failed to load environment variables">> \o files.err, files.env, parsed.heap,
                 Append(stages, "envfiles"), View(TestConfig, parsed.v, parsed.heap), NoOverlay, files)
    ELSE BuildOverlay(parsed, files,
                      loadEnvToStruct(TestConfig, 1, [v |-> parsed.v, heap |-> parsed.heap, err |-> <<>>, lookups |-> <<>>],
                                      files.env, b.envPrefix, b.envTag, "", <<>>),
                      stages)

\* the result of json.Unmarshal(data, target), or the clone when no file is configured
BuildParsed(b, e, wd, parsed, stages) ==
    IF parsed.err # <<>>
    THEN Outcome([nil |-> FALSE, val |-> parsed.v], <<"failed to parse config file">> \o parsed.err, e, parsed.heap, stages,
                 View(TestConfig, parsed.v, parsed.heap), NoOverlay, NoFiles)
    ELSE BuildEnvFiles(b, parsed, loadEnvFromAncestors(b.envFiles, e, wd), stages)

\* a file step that runs for every non-nil path, the empty one included
BuildFile_ReadsEmptyPath(b, e, h, wd, clone) ==
    IF b.filepath.nil
    THEN BuildParsed(b, e, wd, [v |-> clone.v, heap |-> h, err |-> <<>>], <<"nilcheck", "clone">>)
    ELSE IF b.filepath.path \notin DOMAIN ConfigFiles
    THEN Outcome([nil |-> FALSE, val |-> clone.v],
                 <<"failed to read config file", "open " \o b.filepath.path, "no such file or directory">>, e, h,
                 <<"nilcheck", "clone", "readfile">>, View(TestConfig, clone.v, h), NoOverlay, NoFiles)
    ELSE BuildParsed(b, e, wd, jsonUnmarshal(TestConfig, clone.v, ConfigFiles[b.filepath.path], h),
                     <<"nilcheck", "clone", "readfile", "parse">>)

\* "Load from file if specified": os.ReadFile and json.Unmarshal
BuildFile(b, e, h, wd, clone) ==
    IF b.filepath.nil \/ b.filepath.path = ""
    THEN BuildParsed(b, e, wd, [v |-> clone.v, heap |-> h, err |-> <<>>], <<"nilcheck", "clone">>)
    ELSE IF b.filepath.path \notin DOMAIN ConfigFiles
    THEN Outcome([nil |-> FALSE, val |-> clone.v],
                 <<"failed to read config file", "open " \o b.filepath.path, "no such file or directory">>, e, h,
                 <<"nilcheck", "clone", "readfile">>, View(TestConfig, clone.v, h), NoOverlay, NoFiles)
    ELSE BuildParsed(b, e, wd, jsonUnmarshal(TestConfig, clone.v, ConfigFiles[b.filepath.path], h),
                     <<"nilcheck", "clone", "readfile", "parse">>)

\* the result of copier.Copy(target, b.config)
BuildClone(b, e, h, wd, clone) ==
    IF clone.err # <<>>
    THEN Outcome([nil |-> FALSE, val |-> clone.v], <<"failed to clone config">> \o clone.err, e, h, <<"nilcheck", "clone">>,
                 View(TestConfig, clone.v, h), NoOverlay, NoFiles)
    ELSE BuildFile(b, e, h, wd, clone)

\* a Build that puts the environment back as it found it before it returns
BuildRun_RestoresEnv(b, e, h, wd) ==
    IF nilSource(b)
    THEN Outcome([nil |-> b.isPointer, val |-> ZeroValue(TestConfig)], <<"cannot load environment variables into nil pointer">>,
                 e, h, <<"nilcheck">>, View(TestConfig, ZeroValue(TestConfig), h), NoOverlay, NoFiles)
    ELSE [BuildClone(b, e, h, wd, copierCopy(b.config.val)) EXCEPT !.env = e]

BuildRun(b, e, h, wd) ==
    IF nilSource(b)
    THEN Outcome([nil |-> b.isPointer, val |-> ZeroValue(TestConfig)], <<"cannot load environment variables into nil pointer">>,
                 e, h, <<"nilcheck">>, View(TestConfig, ZeroValue(TestConfig), h), NoOverlay, NoFiles)
    ELSE BuildClone(b, e, h, wd, copierCopy(b.config.val))

---------------------------------------------------------------------------
(* The state machine                                                       *)

\* the variables that may exist before the program runs, and their values
EnvValues ==
    [ T_APP_NAME |-> { <<>>, <<"e", "n", "v">> },
      T_PORT |-> { <<"9", "0">>, <<"0">>, <<"x">> },
      T_ENABLED |-> { <<"f", "a", "l", "s", "e">> },
      T_TAGS |-> { <<" ", "a", " ", ",", "b">> } ]

Environments ==
    UNION { { e \in [S -> UNION {EnvValues[k] : k \in S}] : \A k \in S : e[k] \in EnvValues[k] } :
            S \in { S \in SUBSET DOMAIN EnvValues : Cardinality(S) <= MaxEnvVars } }

NoBuilder ==
    [ made |-> FALSE, isPointer |-> TRUE, config |-> [nil |-> TRUE, val |-> ZeroValue(TestConfig)],
      envPrefix |-> "", envTag |-> "", envFiles |-> <<>>, filepath |-> [nil |-> TRUE, path |-> ""] ]

NoResult == [done |-> FALSE, touched |-> FALSE, config |-> [nil |-> TRUE, val |-> ZeroValue(TestConfig)], err |-> <<>>]

NoTrace == [stages |-> <<>>, afterFile |-> View(TestConfig, ZeroValue(TestConfig), <<>>), merged |-> View(TestConfig, ZeroValue(TestConfig), <<>>), lookups |-> <<>>, loaded |-> <<>>, visited |-> <<>>, heap |-> <<>>]

NoPre == [env |-> NoVars, heap |-> <<>>]

Init ==
    /\ env \in Environments
    /\ cwd \in -1..MaxDepth
    /\ heap = InitHeap
    /\ defaultCfg = [nil |-> TRUE, val |-> ZeroValue(TestConfig)]
    /\ builder = NoBuilder
    /\ result = NoResult
    /\ trace = NoTrace
    /\ pre = NoPre
    /\ history = <<>>

\* New(defaultConf): T is *TestConfig (the default may be nil) or TestConfig
New(isPointer, d) ==
    /\ ~builder.made
    /\ defaultCfg' = d
    /\ builder' = [ made |-> TRUE, isPointer |-> isPointer, config |-> d,
                    envPrefix |-> "", envTag |-> "env", envFiles |-> <<>>, filepath |-> [nil |-> TRUE, path |-> ""] ]
    /\ UNCHANGED <<env, cwd, heap, result, trace, pre, history>>

EnvPrefix(prefix) ==
    /\ builder.made /\ ~result.done
    /\ builder' = [builder EXCEPT !.envPrefix = prefix]
    /\ UNCHANGED <<env, cwd, heap, defaultCfg, result, trace, pre, history>>

EnvTag(tag) ==
    /\ builder.made /\ ~result.done
    /\ builder' = [builder EXCEPT !.envTag = tag]
    /\ UNCHANGED <<env, cwd, heap, defaultCfg, result, trace, pre, history>>

EnvFiles(files) ==
    /\ builder.made /\ ~result.done
    /\ builder' = [builder EXCEPT !.envFiles = files]
    /\ UNCHANGED <<env, cwd, heap, defaultCfg, result, trace, pre, history>>

File(filepath) ==
    /\ builder.made /\ ~result.done
    /\ builder' = [builder EXCEPT !.filepath = filepath]
    /\ UNCHANGED <<env, cwd, heap, defaultCfg, result, trace, pre, history>>

\* one call of Build: what it returns, what it leaves in the environment and in the
\* heap; the fields of the Builder are not assigned
BuildCall ==
    /\ \E r \in {BuildRun(builder, env, heap, cwd)} :
           /\ result' = [done |-> TRUE, touched |-> FALSE, config |-> r.config, err |-> r.err]
           /\ env' = r.env
           /\ heap' = r.heap
           /\ trace' = [stages |-> r.stages, afterFile |-> r.afterFile, merged |-> r.merged, lookups |-> r.lookups, loaded |-> r.loaded, visited |-> r.visited, heap |-> r.heap]
           /\ history' = Append(history, [ builder |-> builder, envBefore |-> env, envAfter |-> r.env,
                                            heapBefore |-> heap, heapAfter |-> r.heap, config |-> r.config, err |-> r.err,
                                            stages |-> r.stages, merged |-> r.merged, lookups |-> r.lookups, loaded |-> r.loaded ])
    /\ pre' = [env |-> env, heap |-> heap]
    /\ UNCHANGED <<cwd, defaultCfg, builder>>

\* the first Build of a Builder
Build ==
    /\ builder.made /\ ~result.done
    /\ BuildCall

\* a further Build on the same Builder
Rebuild ==
    /\ builder.made /\ result.done /\ ~result.touched /\ Len(history) < MaxBuilds
    /\ BuildCall

\* EnvFiles and File called on a Builder that has built before
EnvFilesAfterBuild(files) ==
    /\ builder.made /\ result.done /\ Len(history) < MaxBuilds
    /\ builder.envFiles # files
    /\ builder' = [builder EXCEPT !.envFiles = files]
    /\ UNCHANGED <<env, cwd, heap, defaultCfg, result, trace, pre, history>>

FileAfterBuild(filepath) ==
    /\ builder.made /\ result.done /\ Len(history) < MaxBuilds
    /\ builder.filepath # filepath
    /\ builder' = [builder EXCEPT !.filepath = filepath]
    /\ UNCHANGED <<env, cwd, heap, defaultCfg, result, trace, pre, history>>

\* the caller assigns a field of the configuration Build returned
AssignField ==
    /\ result.done /\ ~result.touched /\ ~result.config.nil
    /\ result' = [result EXCEPT !.touched = TRUE, !.config.val.AppName = <<"m">>]
    /\ UNCHANGED <<env, cwd, heap, defaultCfg, builder, trace, pre, history>>

\* the caller assigns a field of a nested struct of the configuration Build returned
AssignNestedField ==
    /\ result.done /\ ~result.touched /\ ~result.config.nil
    /\ result' = [result EXCEPT !.touched = TRUE, !.config.val.Database.Host = <<"m">>]
    /\ UNCHANGED <<env, cwd, heap, defaultCfg, builder, trace, pre, history>>

\* the caller assigns an element of a slice of the configuration Build returned
AssignElement ==
    /\ result.done /\ ~result.touched /\ ~result.config.nil
    /\ result.config.val.Tags.len > 0
    /\ heap' = [heap EXCEPT ![result.config.val.Tags.arr][1] = <<"m">>]
    /\ result' = [result EXCEPT !.touched = TRUE]
    /\ UNCHANGED <<env, cwd, defaultCfg, builder, trace, pre, history>>

Prefixes == {"", "T_"}
TagKeys == {"env", "cfg"}
EnvFileLists == { <<>>, <<".env", ".env.local">>, <<".env.local", ".env">>, <<".env.test">> }
FileArgs == { [nil |-> TRUE, path |-> ""], [nil |-> FALSE, path |-> ""] } \cup { [nil |-> FALSE, path |-> f] : f \in FilePaths }
DefaultArgs ==
    { <<TRUE, [nil |-> TRUE, val |-> ZeroValue(TestConfig)]>> }
    \cup { <<TRUE, [nil |-> FALSE, val |-> d]>> : d \in Defaults }
    \cup { <<FALSE, [nil |-> FALSE, val |-> newTestConfig]>> }

Next ==
    \/ \E a \in DefaultArgs : New(a[1], a[2])
    \/ \E p \in Prefixes : EnvPrefix(p)
    \/ \E t \in TagKeys : EnvTag(t)
    \/ \E fs \in EnvFileLists : EnvFiles(fs)
    \/ \E f \in FileArgs : File(f)
    \/ Build
    \/ AssignField
    \/ AssignNestedField
    \/ AssignElement

Spec == Init /\ [][Next]_vars

---------------------------------------------------------------------------
(* Coercion: the same builder run over environments that hold, for each    *)
(* kind of field, the canonical text of some values of the kind and some   *)
(* literals that are not values of the kind.                               *)

DigitChars == <<"0", "1", "2", "3", "4", "5", "6", "7", "8", "9">>

\* strconv.FormatUint(n, 10) and strconv.FormatInt(n, 10)
RECURSIVE FormatUint(_)
FormatUint(n) == IF n < 10 THEN <<DigitChars[n + 1]>> ELSE Append(FormatUint(n \div 10), DigitChars[(n % 10) + 1])
FormatInt(n) == IF n < 0 THEN <<"-">> \o FormatUint(0 - n) ELSE FormatUint(n)

\* strconv.FormatBool(b)
FormatBool(b) == IF b THEN <<"t", "r", "u", "e">> ELSE <<"f", "a", "l", "s", "e">>

RECURSIVE TrimZeros(_)
TrimZeros(s) == IF s # <<>> /\ s[Len(s)] = "0" THEN TrimZeros(SubSeq(s, 1, Len(s) - 1)) ELSE s

\* time.Duration.String() of a whole number of milliseconds: "0s", "250ms", "1.5s",
\* "1m30s", "1h0m0s"
FormatDuration(d) ==
    LET u == IF d < 0 THEN 0 - d ELSE d
        sign == IF d < 0 THEN <<"-">> ELSE <<>>
        ms == u % DurationUnits["s"]
        frac == TrimZeros(<<DigitChars[(ms \div 100) + 1], DigitChars[((ms \div 10) % 10) + 1], DigitChars[(ms % 10) + 1]>>)
        secs == FormatUint((u \div DurationUnits["s"]) % 60) \o (IF frac = <<>> THEN <<>> ELSE <<".">> \o frac) \o <<"s">>
        mins == FormatUint((u \div DurationUnits["m"]) % 60) \o <<"m">>
        hours == FormatUint(u \div DurationUnits["h"]) \o <<"h">>
    IN  IF u = 0 THEN <<"0", "s">>
        ELSE IF u < DurationUnits["s"] THEN sign \o FormatUint(u) \o <<"m", "s">>
        ELSE IF u < DurationUnits["m"] THEN sign \o secs
        ELSE IF u < DurationUnits["h"] THEN sign \o mins \o secs
        ELSE sign \o hours \o mins \o secs

\* slog.Level.String(): the name of the level at or below l and the signed distance
LevelString(l) ==
    LET str(base, val) == base \o (IF val = 0 THEN <<>> ELSE IF val > 0 THEN <<"+">> \o FormatInt(val) ELSE FormatInt(val))
    IN  IF l < LevelNames["INFO"] THEN str(<<"D", "E", "B", "U", "G">>, l - LevelNames["DEBUG"])
        ELSE IF l < LevelNames["WARN"] THEN str(<<"I", "N", "F", "O">>, l - LevelNames["INFO"])
        ELSE IF l < LevelNames["ERROR"] THEN str(<<"W", "A", "R", "N">>, l - LevelNames["WARN"])
        ELSE str(<<"E", "R", "R", "O", "R">>, l - LevelNames["ERROR"])

\* the values whose canonical text the environment may hold, by Go type
TypedValues ==
    [ string |-> { <<"s", "v", "c">> },
      int |-> { 443, 0 - 5 },
      uint |-> { 7 },
      bool |-> { TRUE, FALSE },
      duration |-> { 0, 250, 1500, 90 * DurationUnits["s"], DurationUnits["h"] },
      level |-> { LevelNames["WARN"], LevelNames["ERROR"] + 2, LevelNames["DEBUG"] - 1 } ]

\* the variables that may exist before the program runs, and their values: canonical
\* texts, and literals that do not denote a value of the field's type
CoerceValues ==
    [ T_APP_NAME |-> TypedValues["string"],
      T_PORT |-> { FormatInt(v) : v \in TypedValues["int"] } \cup { <<"4", "x">> },
      T_MAX_CONNS |-> { FormatUint(v) : v \in TypedValues["uint"] } \cup { <<"-", "1">> },
      T_LOAD_FACTOR |-> { <<"2", ".", "5">>, <<"f">> },
      T_ENABLED |-> { FormatBool(v) : v \in TypedValues["bool"] } \cup { <<"m", "a", "y", "b", "e">> },
      T_LOG_LEVEL |-> { LevelString(v) : v \in TypedValues["level"] } \cup { <<"w", "a", "r", "n">>, <<"B", "O", "G", "U", "S">>, <<"4">> },
      T_TIMEOUT |-> { FormatDuration(v) : v \in TypedValues["duration"] } \cup { <<"s", "o", "o", "n">>, <<"5">> },
      T_TAGS |-> { <<"a", ",", ",", " ", "b", " ", ",", "a">>, <<",">> },
      T_RETRIES |-> { <<"2", "0", "0">>, <<"3", "0", "0">>, <<"-", "1", "2", "9">>, <<"-", "3", "0", "0">>,
                      MinInt64Digits, <<"-">> \o MinInt64Digits \o <<"0">> },
      T_BATCH |-> { <<"7", "0", "0", "0", "0">>, <<"6", "5", "5", "3", "6">>,
                    MaxUint64Digits \o <<"0">> },
      T_DB_PORT |-> { <<"3", "3", "0", "6">>, <<"x">> } ]

CoerceEnvironments ==
    UNION { { e \in [S -> UNION {CoerceValues[k] : k \in S}] : \A k \in S : e[k] \in CoerceValues[k] } :
            S \in { S \in SUBSET DOMAIN CoerceValues : Cardinality(S) <= MaxEnvVars } }

InitCoerce ==
    /\ env \in CoerceEnvironments
    /\ cwd \in 0..(MaxDepth - 1)
    /\ heap = InitHeap
    /\ defaultCfg = [nil |-> TRUE, val |-> ZeroValue(TestConfig)]
    /\ builder = NoBuilder
    /\ result = NoResult
    /\ trace = NoTrace
    /\ pre = NoPre
    /\ history = <<>>

NextCoerce ==
    \/ New(TRUE, [nil |-> FALSE, val |-> newTestConfig])
    \/ EnvPrefix("T_")
    \/ EnvFiles(<<".env.local", ".env">>)
    \/ File([nil |-> FALSE, path |-> "conf.json"])
    \/ Build

SpecCoerce == InitCoerce /\ [][NextCoerce]_vars

---------------------------------------------------------------------------
(* Several Builds in one process: a Builder is built, possibly given       *)
(* another env-file list or file path, and built again.                    *)

InitRepeat ==
    /\ env \in Environments
    /\ cwd \in 0..MaxDepth
    /\ heap = InitHeap
    /\ defaultCfg = [nil |-> TRUE, val |-> ZeroValue(TestConfig)]
    /\ builder = NoBuilder
    /\ result = NoResult
    /\ trace = NoTrace
    /\ pre = NoPre
    /\ history = <<>>

NextRepeat ==
    \/ New(TRUE, [nil |-> FALSE, val |-> newTestConfig])
    \/ EnvPrefix("T_")
    \/ \E fs \in EnvFileLists \ {<<>>} : EnvFiles(fs)
    \/ \E f \in {"conf.json", "zero.json"} : File([nil |-> FALSE, path |-> f])
    \/ Build
    \/ Rebuild
    \/ EnvFilesAfterBuild(<<>>)
    \/ FileAfterBuild([nil |-> TRUE, path |-> ""])

SpecRepeat == InitRepeat /\ [][NextRepeat]_vars

---------------------------------------------------------------------------
(* What the properties below are stated in: the fields of T with their     *)
(* ancestors, the documented name of a field's variable, the value a JSON  *)
(* document holds for a field, and the value a text denotes.               *)

\* the exported fields of a struct type at any depth: [path, field, anc], anc being
\* the enclosing struct fields from the outermost to the innermost
RECURSIVE FieldsOf(_, _, _)
FieldsOf(t, path, anc) ==
    UNION { {[path |-> Append(path, t[i].name), field |-> t[i], anc |-> anc]}
            \cup (IF t[i].kind = "struct" THEN FieldsOf(t[i].elem, Append(path, t[i].name), Append(anc, t[i])) ELSE {})
          : i \in {j \in 1..Len(t) : t[j].exported} }

AllFields == FieldsOf(TestConfig, <<>>, <<>>)

HasTag(field, tag) == tag \in DOMAIN field.tags /\ field.tags[tag] # ""

\* the leaf fields that carry a non-empty tag under the given tag key
TaggedLeaves(tag) == { f \in AllFields : f.field.kind # "struct" /\ HasTag(f.field, tag) }

RECURSIVE JoinUnderscore(_)
JoinUnderscore(segs) ==
    IF segs = <<>> THEN ""
    ELSE IF Len(segs) = 1 THEN segs[1]
    ELSE segs[1] \o "_" \o JoinUnderscore(Tail(segs))

\* prefix + P + "_" + leafTag, or prefix + leafTag when P is empty, P being the
\* "_"-joined non-empty tags of the ancestors
ExpectedKey(f, prefix, tag) ==
    LET tagged == SelectSeq(f.anc, LAMBDA a : HasTag(a, tag))
        P == JoinUnderscore([j \in 1..Len(tagged) |-> tagged[j].tags[tag]])
    IN  IF P = "" THEN prefix \o f.field.tags[tag] ELSE prefix \o P \o "_" \o f.field.tags[tag]

RECURSIVE At(_, _)
At(v, path) == IF path = <<>> THEN v ELSE At(v[Head(path)], Tail(path))

\* the configuration Build returned, and the default, as the caller reads them
ResultView == View(TestConfig, result.config.val, heap)
DefaultView(h) == View(TestConfig, defaultCfg.val, h)

\* the JSON document Build overlays: that of the configured file, when a non-empty
\* path is configured and the file holds an object
NoDoc == [k \in {} |-> 0]
FileDoc ==
    IF ~builder.filepath.nil /\ builder.filepath.path \in DOMAIN ConfigFiles /\ ConfigFiles[builder.filepath.path].valid
    THEN ConfigFiles[builder.filepath.path].doc
    ELSE NoDoc

JsonPath(f) == [j \in 1..Len(f.anc) |-> jsonKey(f.anc[j])] \o <<jsonKey(f.field)>>

RECURSIVE HasJson(_, _)
HasJson(doc, keys) == keys = <<>> \/ (Head(keys) \in DOMAIN doc /\ HasJson(doc[Head(keys)], Tail(keys)))

\* the residue of v modulo m, read as a signed number when asked: m is 2^w
Wrapped(v, m, signed) ==
    LET low == CHOOSE r \in 0..(m - 1) : \E q \in -2 .. 2 : v = q * m + r
    IN  IF signed /\ 2 * low >= m THEN low - m ELSE low

\* the value a text denotes for a field of the given kind
Coerced(field, text) ==
    CASE field.kind = "string" -> text
      [] field.kind = "int" /\ field.gotype = "int" -> ParseInt(text).val
      [] field.kind = "int" /\ field.gotype = "int8" -> Wrapped(ParseInt(text).val, 256, TRUE)
      [] field.kind = "uint" /\ field.gotype = "uint16" -> Wrapped(ParseUint(text).val, 65536, FALSE)
      [] field.kind = "int" /\ field.gotype = "time.Duration" -> ParseDuration(text).val
      [] field.kind = "int" /\ field.gotype = "slog.Level" -> LevelUnmarshalText(text).val
      [] field.kind = "uint" /\ field.gotype = "uint" -> ParseUint(text).val
      [] field.kind = "float" -> ParseFloat(text).val
      [] field.kind = "bool" -> text \in TrueLiterals
      [] field.kind = "slice" -> LET parts == SplitComma(text, <<>>, <<>>) IN [j \in 1..Len(parts) |-> TrimSpace(parts[j])]

Succeeded == result.done /\ ~result.touched /\ result.err = <<>>

---------------------------------------------------------------------------
(* Properties *)

\* C1: in a successful Build, every leaf field with an env tag and a JSON key holds
\* the coerced value of its environment variable when that is non-empty (set before
\* Build or loaded from a .env file), else the value of the JSON file when the file
\* has the key (zero values included), else the value of the default.
C1_Precedence ==
    Succeeded =>
        \A f \in TaggedLeaves(builder.envTag) :
            LET envValue == Getenv(env, ExpectedKey(f, builder.envPrefix, builder.envTag))
            IN  At(ResultView, f.path) =
                    IF envValue # <<>> THEN Coerced(f.field, envValue)
                    ELSE IF HasJson(FileDoc, JsonPath(f)) THEN At(FileDoc, JsonPath(f))
                    ELSE At(DefaultView(pre.heap), f.path)

\* C1 witness: one successful Build in which a field comes from a .env file, one
\* from the JSON file with a zero value, and one from the default
C1_Witness ==
    /\ Succeeded
    /\ builder.envPrefix = "T_" /\ builder.envTag = "env" /\ builder.filepath.path = "conf.json"
    /\ "T_PORT" \notin DOMAIN pre.env /\ ResultView.Port = 22
    /\ "T_ENABLED" \notin DOMAIN env /\ ResultView.Enabled = FALSE
    /\ ResultView.Nested.Server.Name = <<"n">>

\* C2: Build leaves every field and every slice element of the default as it was
\* when Build was called.
C2_DefaultUnchanged ==
    result.done /\ ~result.touched => DefaultView(heap) = DefaultView(pre.heap)

\* C3: changing the configuration Build returned (a field, a field of a nested
\* struct, an element of a slice no overlay replaced) leaves the default unchanged.
C3_NoSharedStorage ==
    result.done /\ result.touched /\ result.err = <<>> => DefaultView(heap) = DefaultView(trace.heap)

\* C4: whenever Build returns an error, the configuration returned with it is the
\* zero value of T: nil for a pointer type, the zero struct otherwise.
C4_ZeroOnError ==
    result.done /\ ~result.touched /\ result.err # <<>> =>
        IF builder.isPointer THEN result.config.nil ELSE result.config.val = ZeroValue(TestConfig)

\* C5: the variable looked up for a tagged leaf field at any depth is prefix + P +
\* "_" + leafTag, or prefix + leafTag when P is empty, P being the "_"-joined
\* non-empty tags of its ancestors; an ancestor without a tag, or with an empty one,
\* adds no segment and its descendants are still looked up.
C5_EnvKey ==
    result.done /\ "overlay" \in {trace.stages[i] : i \in 1..Len(trace.stages)} =>
        /\ \A i \in 1..Len(trace.lookups) :
              \A f \in TaggedLeaves(builder.envTag) :
                  f.path = trace.lookups[i].path =>
                      trace.lookups[i].key = ExpectedKey(f, builder.envPrefix, builder.envTag)
        /\ "validate" \in {trace.stages[i] : i \in 1..Len(trace.stages)} =>
              \A f \in TaggedLeaves(builder.envTag) : \E i \in 1..Len(trace.lookups) : trace.lookups[i].path = f.path

\* C5 witness: under the tag key "cfg" the field Database.Server.Name, whose parent
\* has no tag and whose grandparent is tagged "D", is set from T_D_NAME
C5_Witness ==
    /\ Succeeded
    /\ builder.envPrefix = "T_" /\ builder.envTag = "cfg"
    /\ \E i \in 1..Len(trace.lookups) :
          /\ trace.lookups[i].path = <<"Database", "Server", "Name">>
          /\ trace.lookups[i].key = "T_D_NAME"
    /\ ResultView.Database.Server.Name = <<"d", "n">>

\* C6: a tagged field whose variable is unset or empty when the overlay runs keeps
\* the value it had after the clone and the JSON overlay, whatever its kind, and an
\* overlay error is never raised for such a field.
C6_EmptyEnvKeeps ==
    result.done /\ ~result.touched /\ "overlay" \in {trace.stages[i] : i \in 1..Len(trace.stages)} =>
        /\ \A f \in TaggedLeaves(builder.envTag) :
              Getenv(env, ExpectedKey(f, builder.envPrefix, builder.envTag)) = <<>> =>
                  At(trace.merged, f.path) = At(trace.afterFile, f.path)
        /\ (result.err # <<>> /\ Head(result.err) = "failed to override configuration from environment") =>
              trace.lookups[Len(trace.lookups)].value # <<>>

\* C6 witness: T_APP_NAME is set to the empty string, the file supplies app_name
\* and the result holds the file's value
C6_Witness ==
    /\ Succeeded
    /\ builder.envPrefix = "T_" /\ builder.envTag = "env" /\ builder.filepath.path = "conf.json"
    /\ "T_APP_NAME" \in DOMAIN env /\ env["T_APP_NAME"] = <<>>
    /\ "T_ENABLED" \notin DOMAIN env
    /\ ResultView.AppName = <<"f", "i", "l", "e">>
    /\ ResultView.Enabled = FALSE

\* C7: with T a pointer type and a nil default, Build fails with "cannot load
\* environment variables into nil pointer" before any other step: no file is read,
\* no .env file is loaded, the environment is unchanged, validation does not run.
C7_NilDefault ==
    result.done /\ builder.isPointer /\ builder.config.nil =>
        /\ result.err = <<"cannot load environment variables into nil pointer">>
        /\ trace.stages = <<"nilcheck">>
        /\ trace.loaded = <<>> /\ trace.visited = <<>> /\ trace.lookups = <<>>
        /\ env = pre.env /\ heap = pre.heap

\* C7 witness: a nil default with a JSON file and .env files configured, in a
\* directory whose ancestors hold .env files
C7_Witness ==
    /\ result.done /\ builder.isPointer /\ builder.config.nil
    /\ builder.filepath.path = "conf.json"
    /\ builder.envFiles = <<".env", ".env.local">>
    /\ cwd = 1

\* the validate constraints of TestConfig and its nested structs, on a configuration
\* as read by the caller
Valid(c) ==
    /\ c.AppName # <<>>
    /\ c.Port >= 1 /\ c.Port <= 65535
    /\ c.MaxConns >= 1 /\ c.MaxConns <= 10000
    /\ c.Timeout # 0
    /\ Len(c.Tags) >= 1 /\ \A j \in 1..Len(c.Tags) : Len(c.Tags[j]) >= 1
    /\ c.Database.Host # <<>>
    /\ c.Database.Port >= 1 /\ c.Database.Port <= 65535

EarlierStageErrors ==
    { "cannot load environment variables into nil pointer", "failed to clone config", "failed to read config file",
      "failed to parse config file", "failed to load environment variables",
      "failed to override configuration from environment" }

\* C8: validation is applied to the merged configuration only: when no earlier stage
\* fails, Build succeeds exactly if the merged result satisfies every constraint
\* (nested ones included) and fails with "invalid configuration" otherwise; a
\* successful Build returns that merged result.
C8_ValidatesMerged ==
    result.done /\ ~result.touched =>
        /\ result.err = <<>> => Valid(ResultView) /\ ResultView = trace.merged
        /\ (result.err # <<>> /\ Head(result.err) \notin EarlierStageErrors) =>
              Head(result.err) = "invalid configuration" /\ ~Valid(trace.merged)

\* C8 witness: a default invalid on its own (empty AppName) built successfully
\* because the environment supplies the field
C8_Witness ==
    /\ Succeeded
    /\ defaultCfg.val.AppName = <<>>
    /\ builder.filepath.nil
    /\ ResultView.AppName = <<"e", "n", "v">>

\* C9: a variable with a non-empty value before Build has the same value after it,
\* whatever the .env files define, and that value is the one the overlay reads and
\* applies.
C9_ExistingEnvKept ==
    result.done =>
        \A k \in DOMAIN pre.env :
            pre.env[k] # <<>> =>
                /\ k \in DOMAIN env /\ env[k] = pre.env[k]
                /\ \A i \in 1..Len(trace.lookups) : trace.lookups[i].key = k => trace.lookups[i].value = pre.env[k]
                /\ Succeeded =>
                      \A f \in TaggedLeaves(builder.envTag) :
                          ExpectedKey(f, builder.envPrefix, builder.envTag) = k =>
                              At(ResultView, f.path) = Coerced(f.field, pre.env[k])

\* C9 witness: T_PORT=90 is set before Build, two loaded .env files define T_PORT,
\* and the result's port is 90
C9_Witness ==
    /\ Succeeded
    /\ "T_PORT" \in DOMAIN pre.env /\ pre.env["T_PORT"] = <<"9", "0">>
    /\ \E i, j \in 1..Len(trace.loaded) : trace.loaded[i] = <<1, ".env">> /\ trace.loaded[j] = <<0, ".env">>
    /\ ResultView.Port = 90

\* the candidate files that exist and can be parsed, from the working directory up
\* to the root: <<directory, index in EnvFiles>>
Loadable ==
    { c \in (0..cwd) \X (1..Len(builder.envFiles)) :
        EnvFileAt(c[1], builder.envFiles[c[2]]).exists /\ EnvFileAt(c[1], builder.envFiles[c[2]]).valid }

\* C10: the search visits every directory from the working directory up to and
\* including the root and loads every candidate file found in each; a key not in
\* the environment before gets the value of the closest directory's file, and within
\* a directory of the file listed first, and keys of farther or later files are
\* loaded too.
C10_AncestorSearch ==
    result.done /\ cwd >= 0 /\ "envfiles" \in {trace.stages[i] : i \in 1..Len(trace.stages)} =>
        /\ trace.visited = [i \in 1..(cwd + 1) |-> cwd + 1 - i]
        /\ {trace.loaded[i] : i \in 1..Len(trace.loaded)} = { <<c[1], builder.envFiles[c[2]]>> : c \in Loadable }
        /\ \A c \in Loadable :
              \A k \in DOMAIN EnvFileAt(c[1], builder.envFiles[c[2]]).vars :
                  k \notin DOMAIN pre.env =>
                      LET defining == { d \in Loadable : k \in DOMAIN EnvFileAt(d[1], builder.envFiles[d[2]]).vars }
                          first == CHOOSE d \in defining :
                                       \A d2 \in defining : d[1] > d2[1] \/ (d[1] = d2[1] /\ d[2] <= d2[2])
                      IN  k \in DOMAIN env /\ env[k] = EnvFileAt(first[1], builder.envFiles[first[2]]).vars[k]

\* C10 witness: from a directory two levels below the root, with .env.local listed
\* before .env, T_PORT comes from the parent's .env.local although the parent's .env
\* and the root's .env define it too, and T_APP_NAME comes from the root's .env
C10_Witness ==
    /\ Succeeded
    /\ cwd = 2 /\ builder.envFiles = <<".env.local", ".env">>
    /\ "T_PORT" \notin DOMAIN pre.env /\ env["T_PORT"] = <<"3", "3">>
    /\ "T_APP_NAME" \notin DOMAIN pre.env /\ env["T_APP_NAME"] = <<"r", "o", "o", "t">>
    /\ trace.loaded = << <<1, ".env.local">>, <<1, ".env">>, <<0, ".env">> >>

\* err.Error(): the messages of a wrap chain joined with ": "
RECURSIVE ErrorText(_)
ErrorText(err) ==
    IF err = <<>> THEN ""
    ELSE IF Len(err) = 1 THEN err[1]
    ELSE err[1] \o ": " \o ErrorText(Tail(err))

\* strings.Contains(text, part)
Contains(text, part) == \E i \in 1..(Len(text) - Len(part) + 1) : SubSeq(text, i, i + Len(part) - 1) = part

\* the lookup at which the overlay of the last Build stopped
FailedLookup == trace.lookups[Len(trace.lookups)]

CoercionFailed ==
    result.done /\ result.err # <<>> /\ Head(result.err) = "failed to override configuration from environment"

\* C11: the error of a coercion failure names the key that was looked up (prefix,
\* parent path and leaf tag) and the literal that was read from it.
C11_ErrorNamesKey ==
    CoercionFailed =>
        /\ Contains(ErrorText(result.err), FailedLookup.key)
        /\ Contains(ErrorText(result.err), Str(FailedLookup.value))

\* the candidate files the search of the last Build came across: <<directory, name>>
Candidates == { <<d, builder.envFiles[j]>> : d \in 0..cwd, j \in 1..Len(builder.envFiles) }

\* the field at a path of T
RECURSIVE FieldAt(_, _)
FieldAt(t, path) ==
    LET f == CHOOSE g \in {t[i] : i \in 1..Len(t)} : g.name = Head(path)
    IN  IF Len(path) = 1 THEN f ELSE FieldAt(f.elem, Tail(path))

\* C12: Build succeeds only if every input it came across was used or was one of the
\* ignorable ones: each candidate .env file that exists was loaded, and each
\* non-empty value read for a tagged field was applied to that field.
C12_NothingDropped ==
    Succeeded =>
        /\ cwd >= 0 => \A c \in Candidates : EnvFileAt(c[1], c[2]).exists => \E i \in 1..Len(trace.loaded) : trace.loaded[i] = c
        /\ \A i \in 1..Len(trace.lookups) :
              trace.lookups[i].value # <<>> =>
                  /\ FieldAt(TestConfig, trace.lookups[i].path).kind # "struct"
                  /\ At(ResultView, trace.lookups[i].path) = Coerced(FieldAt(TestConfig, trace.lookups[i].path), trace.lookups[i].value)

HasFilePath == ~builder.filepath.nil /\ builder.filepath.path # ""

\* the last Build, had File never been called on the builder
WithoutFile == BuildRun([builder EXCEPT !.filepath = [nil |-> TRUE, path |-> ""]], pre.env, pre.heap, cwd)

\* C13: the file is read exactly when the configured path is non-nil and non-empty;
\* with a nil or empty path Build does what it does when File was never called; a
\* path to no file fails with "failed to read config file", a payload that is not
\* JSON with "failed to parse config file"; and when the working directory is known,
\* loading the .env files is never an error, whether or not any candidate exists.
C13_FileStep ==
    result.done /\ ~result.touched /\ ~nilSource(builder) =>
        /\ HasFilePath <=> \E i \in 1..Len(trace.stages) : trace.stages[i] = "readfile"
        /\ ~HasFilePath =>
              /\ result.err = WithoutFile.err /\ trace.merged = WithoutFile.merged /\ env = WithoutFile.env
              /\ trace.afterFile = DefaultView(pre.heap)
        /\ (HasFilePath /\ builder.filepath.path \notin DOMAIN ConfigFiles) =>
              /\ Head(result.err) = "failed to read config file"
              /\ trace.stages = <<"nilcheck", "clone", "readfile">>
        /\ (HasFilePath /\ builder.filepath.path \in DOMAIN ConfigFiles /\ ~ConfigFiles[builder.filepath.path].valid) =>
              Head(result.err) = "failed to parse config file"
        /\ (HasFilePath /\ builder.filepath.path \in DOMAIN ConfigFiles /\ ConfigFiles[builder.filepath.path].valid) =>
              (result.err = <<>> \/ Head(result.err) \notin {"failed to read config file", "failed to parse config file"})
        /\ cwd >= 0 => (result.err = <<>> \/ Head(result.err) # "failed to load environment variables")

\* C13 witness: File was called with the empty path, none of the candidate .env
\* files exists, and Build succeeds with the default's values
C13_Witness ==
    /\ Succeeded
    /\ ~builder.filepath.nil /\ builder.filepath.path = ""
    /\ builder.envFiles # <<>> /\ cwd >= 0 /\ \A c \in Candidates : ~EnvFileAt(c[1], c[2]).exists
    /\ ResultView = DefaultView(pre.heap)

OverlayCompleted == result.done /\ ~result.touched /\ \E i \in 1..Len(trace.stages) : trace.stages[i] = "validate"

\* the positions of the commas of a text, and its k-th piece: the characters between
\* the (k-1)-th and the k-th comma without the whitespace around them
CommaPositions(text) == { i \in 1..Len(text) : text[i] = "," }
PieceBounds(text, k) ==
    LET before == { i \in CommaPositions(text) : Cardinality({ j \in CommaPositions(text) : j <= i }) = k - 1 }
        after == { i \in CommaPositions(text) : Cardinality({ j \in CommaPositions(text) : j <= i }) = k }
        from == IF before = {} THEN 1 ELSE (CHOOSE i \in before : TRUE) + 1
        to == IF after = {} THEN Len(text) ELSE (CHOOSE i \in after : TRUE) - 1
        inked == { i \in from..to : ~IsSpace(text[i]) }
    IN  IF inked = {} THEN <<1, 0>>
        ELSE << CHOOSE i \in inked : \A j \in inked : i <= j, CHOOSE i \in inked : \A j \in inked : i >= j >>
Pieces(text) ==
    [ k \in 1..(Cardinality(CommaPositions(text)) + 1) |-> SubSeq(text, PieceBounds(text, k)[1], PieceBounds(text, k)[2]) ]

\* C14: a []string field whose variable is non-empty holds, after the overlay, one
\* element per comma plus one: the pieces between the commas in order, each without
\* its surrounding whitespace, empty pieces and duplicates kept, and nothing of the
\* elements it held before.
C14_SliceSplit ==
    OverlayCompleted =>
        \A f \in TaggedLeaves(builder.envTag) :
            LET text == Getenv(env, ExpectedKey(f, builder.envPrefix, builder.envTag))
            IN  (f.field.kind = "slice" /\ text # <<>>) =>
                    /\ At(trace.merged, f.path) = Pieces(text)
                    /\ Len(At(trace.merged, f.path)) = Cardinality({ i \in 1..Len(text) : text[i] = "," }) + 1

\* C14 witness: T_TAGS holds "a,, b ,a" while the default holds one element and the
\* file two; the field holds "a", "", "b", "a"
C14_Witness ==
    /\ OverlayCompleted
    /\ builder.envPrefix = "T_" /\ builder.filepath.path = "conf.json"
    /\ Getenv(env, "T_TAGS") = <<"a", ",", ",", " ", "b", " ", ",", "a">>
    /\ trace.afterFile.Tags = << <<"x">>, <<"y">> >>
    /\ trace.merged.Tags = << <<"a">>, <<>>, <<"b">>, <<"a">> >>

\* every field of T at any depth, the unexported ones included
RECURSIVE EveryField(_, _)
EveryField(t, path) ==
    UNION { {[path |-> Append(path, t[i].name), field |-> t[i]]}
            \cup (IF t[i].kind = "struct" THEN EveryField(t[i].elem, Append(path, t[i].name)) ELSE {})
          : i \in 1..Len(t) }

\* the fields the overlay has no variable for under the builder's tag key
Untagged == { f \in EveryField(TestConfig, <<>>) : ~f.field.exported \/ ~HasTag(f.field, builder.envTag) }

BuildRan == result.done /\ ~result.touched /\ ~nilSource(builder)

\* C15: fields without the environment tag and unexported fields hold, in the Build
\* result, the value they had after the clone and the JSON overlay (for an
\* unexported field the default's value), whatever variables are set.
C15_UntaggedUnchanged ==
    BuildRan =>
        \A f \in Untagged :
            /\ At(ResultView, f.path) = At(trace.afterFile, f.path)
            /\ ~f.field.exported => At(ResultView, f.path) = At(DefaultView(pre.heap), f.path)

\* C15 as amended: the same of the fields that are not structs; a struct field
\* without the tag is descended into and changes where its tagged fields do.
C15_UntaggedLeavesUnchanged ==
    BuildRan =>
        \A f \in Untagged :
            (f.field.kind # "struct" \/ ~f.field.exported) =>
                /\ At(ResultView, f.path) = At(trace.afterFile, f.path)
                /\ ~f.field.exported => At(ResultView, f.path) = At(DefaultView(pre.heap), f.path)

\* C15 witness: variables named after the untagged and the unexported field exist,
\* the overlay has applied others, and InternalID holds the file's value
C15_Witness ==
    /\ Succeeded
    /\ builder.envPrefix = "T_" /\ builder.envTag = "cfg" /\ builder.filepath.path = "conf.json"
    /\ Getenv(env, "T_INTERNAL_ID") # <<>> /\ Getenv(env, "T_INTERNALID") # <<>> /\ Getenv(env, "T_UNEXPORTED") # <<>>
    /\ Getenv(env, "T_PORT") # <<>>
    /\ ResultView.AppName = Getenv(env, "T_APP_NAME") /\ ResultView.AppName # trace.afterFile.AppName
    /\ ResultView.Port = 80
    /\ ResultView.InternalID = <<"f", "i", "d">>
    /\ ResultView.unexported = <<"u">>

\* the kind of value a field holds, and the canonical text of a value of that kind
ValueKind(field) ==
    CASE field.gotype = "time.Duration" -> "duration"
      [] field.gotype = "slog.Level" -> "level"
      [] field.gotype \in {"int8", "uint16"} -> field.gotype
      [] OTHER -> field.kind
CanonicalText(kind, v) ==
    CASE kind = "string" -> v
      [] kind = "int" -> FormatInt(v)
      [] kind = "uint" -> FormatUint(v)
      [] kind = "bool" -> FormatBool(v)
      [] kind = "duration" -> FormatDuration(v)
      [] kind = "level" -> LevelString(v)

OverlayRan == result.done /\ ~result.touched /\ \E i \in 1..Len(trace.stages) : trace.stages[i] = "overlay"

\* C16: a tagged field of kind string, int, uint, bool, duration or level whose
\* variable holds the canonical text of a value v equals v in what Build yields,
\* whatever the default and the file held; a negative literal in the variable of
\* an unsigned field makes Build fail in the overlay.
C16_RoundTrip ==
    /\ OverlayCompleted =>
           \A f \in TaggedLeaves(builder.envTag) :
               ValueKind(f.field) \in DOMAIN TypedValues =>
                   \A v \in TypedValues[ValueKind(f.field)] :
                       Getenv(env, ExpectedKey(f, builder.envPrefix, builder.envTag)) = CanonicalText(ValueKind(f.field), v)
                           => At(ResultView, f.path) = v
    /\ OverlayRan =>
           \A f \in TaggedLeaves(builder.envTag) :
               LET text == Getenv(env, ExpectedKey(f, builder.envPrefix, builder.envTag))
               IN  (f.field.kind = "uint" /\ text # <<>> /\ Head(text) = "-") =>
                       /\ CoercionFailed
                       /\ At(ResultView, f.path) = At(trace.afterFile, f.path)

\* C16 witness: T_TIMEOUT holds "1m30s", the default 30s and the file 2s
C16_Witness ==
    /\ Succeeded
    /\ Getenv(env, "T_TIMEOUT") = <<"1", "m", "3", "0", "s">>
    /\ builder.envPrefix = "T_" /\ builder.filepath.path = "conf.json"
    /\ DefaultView(pre.heap).Timeout = 30 * DurationUnits["s"]
    /\ trace.afterFile.Timeout = 2 * DurationUnits["s"]
    /\ ResultView.Timeout = 90 * DurationUnits["s"]

\* the stored default of a Builder and the configuration a Build returned, as the
\* caller reads them through a heap
StoredDefault(h, i) == View(TestConfig, history[i].builder.config.val, h)
Returned(i) == View(TestConfig, history[i].config.val, history[i].heapAfter)

\* C17: a Build leaves the Builder's state as it was (the stored default as the
\* caller reads it, the prefix, the tag key, the env-file list, the file path), and
\* successive Builds on an unchanged Builder return equal results or the same error.
C17_BuilderUnchanged ==
    /\ \A i \in 1..Len(history) :
           StoredDefault(history[i].heapBefore, i) = StoredDefault(history[i].heapAfter, i)
    /\ \A i \in 1..(Len(history) - 1) :
           history[i + 1].builder = history[i].builder =>
               /\ history[i + 1].err = history[i].err
               /\ Returned(i + 1) = Returned(i)

\* the second part alone: successive Builds on an unchanged Builder agree
RepeatedBuildsAgree ==
    \A i \in 1..(Len(history) - 1) :
        history[i + 1].builder = history[i].builder =>
            /\ history[i + 1].err = history[i].err
            /\ Returned(i + 1) = Returned(i)

\* whether a text denotes a value of a field's type
Denotes(field, text) ==
    CASE field.kind \in {"string", "slice"} -> TRUE
      [] field.kind = "int" /\ field.gotype = "time.Duration" -> ParseDuration(text).ok
      [] field.kind = "int" /\ field.gotype = "slog.Level" -> LevelUnmarshalText(ToUpper(text)).ok
      [] field.kind = "int" /\ field.gotype \notin {"time.Duration", "slog.Level"} -> ParseInt(text).ok
      [] field.kind = "uint" -> ParseUint(text).ok
      [] field.kind = "float" -> ParseFloat(text).ok
      [] field.kind = "bool" -> ParseBool(text).ok

\* the stages of a Build of the current Builder, and the error each fails with
StageOrder ==
    IF HasFilePath THEN <<"nilcheck", "clone", "readfile", "parse", "envfiles", "overlay", "validate">>
    ELSE <<"nilcheck", "clone", "envfiles", "overlay", "validate">>
StageError ==
    [ nilcheck |-> "cannot load environment variables into nil pointer", clone |-> "failed to clone config",
      readfile |-> "failed to read config file", parse |-> "failed to parse config file",
      envfiles |-> "failed to load environment variables", overlay |-> "failed to override configuration from environment",
      validate |-> "invalid configuration" ]

\* the first stage that has reason to fail, told from the Builder, the files, the
\* working directory and the environment the overlay reads
FirstFailing ==
    CASE nilSource(builder) -> "nilcheck"
      [] ~nilSource(builder) /\ HasFilePath /\ builder.filepath.path \notin DOMAIN ConfigFiles -> "readfile"
      [] ~nilSource(builder) /\ HasFilePath /\ builder.filepath.path \in DOMAIN ConfigFiles
             /\ ~ConfigFiles[builder.filepath.path].valid -> "parse"
      [] OTHER ->
           IF cwd < 0 THEN "envfiles"
           ELSE IF \E f \in TaggedLeaves(builder.envTag) :
                       LET text == Getenv(env, ExpectedKey(f, builder.envPrefix, builder.envTag))
                       IN  text # <<>> /\ ~Denotes(f.field, text)
                THEN "overlay"
                ELSE IF ~Valid(trace.merged) THEN "validate" ELSE "none"

StagesThrough(stage) ==
    SubSeq(StageOrder, 1, CHOOSE i \in 1..Len(StageOrder) : StageOrder[i] = stage)

\* C18: Build runs nil-check, clone, JSON read, JSON parse, .env loading, overlay
\* and validation in this order and returns at the first stage that fails, with
\* that stage's error whatever later stages would do; the stages after it leave no
\* trace: no .env file is loaded and the environment is as it was when the file is
\* missing or malformed, and nothing is validated when the overlay fails.
C18_StageOrder ==
    (result.done /\ ~result.touched) =>
        /\ FirstFailing = "none" => result.err = <<>> /\ trace.stages = StageOrder
        /\ FirstFailing # "none" =>
               /\ result.err # <<>> /\ Head(result.err) = StageError[FirstFailing]
               /\ trace.stages = StagesThrough(FirstFailing)
        /\ FirstFailing \in {"nilcheck", "readfile", "parse"} =>
               /\ env = pre.env /\ trace.loaded = <<>> /\ trace.visited = <<>> /\ trace.lookups = <<>>
        /\ FirstFailing \in {"readfile", "parse"} => ResultView = DefaultView(pre.heap) /\ heap = pre.heap
        /\ FirstFailing = "envfiles" => env = pre.env /\ trace.lookups = <<>> /\ ResultView = trace.afterFile

\* C18 witness: the file is missing while a .env file could be loaded, T_PORT does
\* not denote an integer and the default breaks a rule; Build reports the read
C18_Witness ==
    /\ result.done /\ ~result.touched
    /\ FirstFailing = "readfile"
    /\ cwd >= 1 /\ \E c \in Candidates : EnvFileAt(c[1], c[2]).exists /\ EnvFileAt(c[1], c[2]).valid
    /\ builder.envPrefix = "T_" /\ builder.envTag = "env" /\ Getenv(env, "T_PORT") = <<"x">>
    /\ ~Valid(DefaultView(pre.heap))
    /\ Head(result.err) = "failed to read config file"
    /\ trace.stages = <<"nilcheck", "clone", "readfile">>

\* the variables the .env loading of the i-th Build had to write: those of the
\* files it loaded that did not exist when it was entered; and the values the
\* loaded files give a variable
LoadedFiles(i) == { EnvFileAt(history[i].loaded[n][1], history[i].loaded[n][2]) : n \in 1..Len(history[i].loaded) }
Written(i) == UNION { DOMAIN f.vars : f \in LoadedFiles(i) } \ DOMAIN history[i].envBefore
FileValues(i, k) == { f.vars[k] : f \in { g \in LoadedFiles(i) : k \in DOMAIN g.vars } }

\* C19: a variable written by the .env loading of a Build is set when that Build
\* returns, whatever the Build's outcome, keeps its value through every later
\* Build, is the value every later Build finds under that key, and is applied by a
\* later Build whose overlay completes, also when that Build has no env files; no
\* Build removes a variable.
C19_EnvPersists ==
    \A i \in 1..Len(history) :
        /\ DOMAIN history[i].envBefore \subseteq DOMAIN history[i].envAfter
        /\ i = Len(history) => env = history[i].envAfter
        /\ \A k \in Written(i) :
               /\ k \in DOMAIN history[i].envAfter /\ history[i].envAfter[k] \in FileValues(i, k)
               /\ \A j \in (i + 1)..Len(history) :
                      /\ k \in DOMAIN history[j].envBefore /\ history[j].envBefore[k] = history[i].envAfter[k]
                      /\ k \in DOMAIN history[j].envAfter /\ history[j].envAfter[k] = history[i].envAfter[k]
                      /\ \A n \in 1..Len(history[j].lookups) :
                             history[j].lookups[n].key = k => history[j].lookups[n].value = history[i].envAfter[k]
                      /\ ((\E n \in 1..Len(history[j].stages) : history[j].stages[n] = "validate") /\ history[i].envAfter[k] # <<>>) =>
                             \A f \in TaggedLeaves(history[j].builder.envTag) :
                                 ExpectedKey(f, history[j].builder.envPrefix, history[j].builder.envTag) = k =>
                                     At(history[j].merged, f.path) = Coerced(f.field, history[i].envAfter[k])

\* C19 witness: the first Build loads T_PORT=22 from a .env file and fails in
\* validation; the second, with no env files and no file, succeeds with port 22
C19_Witness ==
    /\ Len(history) >= 2
    /\ history[1].err # <<>> /\ Head(history[1].err) = "invalid configuration"
    /\ "T_PORT" \in Written(1) /\ history[1].envAfter["T_PORT"] = <<"2", "2">>
    /\ history[2].builder.envFiles = <<>> /\ history[2].builder.envPrefix = "T_"
    /\ history[2].err = <<>>
    /\ history[2].merged.Port = 22

\* the exported non-struct fields of a struct type in declaration order, a nested
\* struct's fields standing where the struct field stands
RECURSIVE LeavesInOrder(_, _, _)
LeavesInOrder(t, path, anc) ==
    IF t = <<>> THEN <<>>
    ELSE (IF ~Head(t).exported THEN <<>>
          ELSE IF Head(t).kind = "struct"
          THEN LeavesInOrder(Head(t).elem, Append(path, Head(t).name), Append(anc, Head(t)))
          ELSE << [path |-> Append(path, Head(t).name), field |-> Head(t), anc |-> anc] >>)
         \o LeavesInOrder(Tail(t), path, anc)

\* the tagged ones among them, the text each one's variable holds, and the first
\* whose text does not denote a value of its type (0: none)
OverlayOrder == SelectSeq(LeavesInOrder(TestConfig, <<>>, <<>>), LAMBDA f : HasTag(f.field, builder.envTag))
TextOf(f) == Getenv(env, ExpectedKey(f, builder.envPrefix, builder.envTag))
FirstBad ==
    LET bad == { i \in 1..Len(OverlayOrder) : TextOf(OverlayOrder[i]) # <<>> /\ ~Denotes(OverlayOrder[i].field, TextOf(OverlayOrder[i])) }
    IN  IF bad = {} THEN 0 ELSE CHOOSE i \in bad : \A j \in bad : i <= j
LeafLookups == SelectSeq(trace.lookups, LAMBDA l : \E i \in 1..Len(OverlayOrder) : OverlayOrder[i].path = l.path)

\* C20: the overlay takes the fields in declaration order, a nested struct's fields
\* at the position of the struct field, and stops at the first field whose
\* non-empty value does not parse: the fields before it are overlaid, that field and
\* every field after it hold what they held before the overlay, and the error
\* carries the name of each enclosing struct field, outermost first.
C20_OverlayOrder ==
    OverlayRan =>
        /\ FirstBad = 0 =>
               /\ ~CoercionFailed
               /\ LeafLookups = [i \in 1..Len(OverlayOrder) |->
                                    [path |-> OverlayOrder[i].path, key |-> ExpectedKey(OverlayOrder[i], builder.envPrefix, builder.envTag),
                                     value |-> TextOf(OverlayOrder[i])]]
        /\ FirstBad > 0 =>
               /\ CoercionFailed
               /\ LeafLookups = [i \in 1..FirstBad |->
                                    [path |-> OverlayOrder[i].path, key |-> ExpectedKey(OverlayOrder[i], builder.envPrefix, builder.envTag),
                                     value |-> TextOf(OverlayOrder[i])]]
               /\ \A i \in 1..(FirstBad - 1) :
                      TextOf(OverlayOrder[i]) # <<>> =>
                          At(ResultView, OverlayOrder[i].path) = Coerced(OverlayOrder[i].field, TextOf(OverlayOrder[i]))
               /\ \A i \in FirstBad..Len(OverlayOrder) :
                      At(ResultView, OverlayOrder[i].path) = At(trace.afterFile, OverlayOrder[i].path)
               /\ Len(result.err) > 1 + Len(OverlayOrder[FirstBad].anc)
               /\ \A j \in 1..Len(OverlayOrder[FirstBad].anc) :
                      result.err[1 + j] = "error loading sub config field " \o OverlayOrder[FirstBad].anc[j].name
               /\ Contains(result.err[2 + Len(OverlayOrder[FirstBad].anc)], "invalid ")

\* C20 witness: T_DB_PORT does not parse; T_PORT and T_DB_HOST, earlier in the order,
\* are overlaid, Database.Port keeps its value, Nested.Value, later in the order, is
\* not overlaid although T_VALUE is set, and the error names Database
C20_Witness ==
    /\ OverlayRan /\ CoercionFailed
    /\ Getenv(env, "T_DB_PORT") = <<"x">>
    /\ Getenv(env, "T_PORT") = <<"3", "3">> /\ ResultView.Port = 33
    /\ Getenv(env, "T_DB_HOST") = <<"l", "o", "c">> /\ ResultView.Database.Host = <<"l", "o", "c">>
    /\ ResultView.Database.Port = 5432
    /\ Getenv(env, "T_VALUE") = <<"o", "n", "e">> /\ ResultView.Nested.Value = <<"v">>
    /\ result.err[2] = "error loading sub config field Database"

\* the level a text stands for when both forms are supported: a plain number is the
\* level of that value, a name in any case with an optional offset the named level
LevelOf(text) ==
    IF ParseInt(text).ok THEN [ok |-> TRUE, val |-> ParseInt(text).val]
    ELSE [ok |-> LevelUnmarshalText(text).ok, val |-> LevelUnmarshalText(text).val]

\* C21: a slog.Level field accepts a level name in any letter case, with an optional
\* +N or -N offset, and a plain numeric level value, and is set to that level; any
\* other literal fails with "invalid slog level value".
C21_LevelLiterals ==
    OverlayRan =>
        \A f \in TaggedLeaves(builder.envTag) :
            (/\ f.field.gotype = "slog.Level" /\ TextOf(f) # <<>>
             /\ \E n \in 1..Len(trace.lookups) : trace.lookups[n].path = f.path) =>
                /\ LevelOf(TextOf(f)).ok =>
                       /\ ~(CoercionFailed /\ FailedLookup.path = f.path)
                       /\ OverlayCompleted => At(ResultView, f.path) = LevelOf(TextOf(f)).val
                /\ ~LevelOf(TextOf(f)).ok =>
                       /\ CoercionFailed /\ FailedLookup.path = f.path
                       /\ Contains(ErrorText(result.err), "invalid slog level value")

\* the same of the names alone
LevelNamesAccepted ==
    OverlayRan =>
        \A f \in TaggedLeaves(builder.envTag) :
            (/\ f.field.gotype = "slog.Level" /\ TextOf(f) # <<>> /\ ~ParseInt(TextOf(f)).ok
             /\ \E n \in 1..Len(trace.lookups) : trace.lookups[n].path = f.path) =>
                /\ LevelOf(TextOf(f)).ok =>
                       /\ ~(CoercionFailed /\ FailedLookup.path = f.path)
                       /\ OverlayCompleted => At(ResultView, f.path) = LevelOf(TextOf(f)).val
                /\ ~LevelOf(TextOf(f)).ok =>
                       /\ CoercionFailed /\ FailedLookup.path = f.path
                       /\ Contains(ErrorText(result.err), "invalid slog level value")

\* the tagged fields of an integer type narrower than 64 bits
NarrowLeaves == { f \in TaggedLeaves(builder.envTag) : f.field.kind \in {"int", "uint"} /\ Bits(f.field.gotype) < 64 }

\* C22: for an integer field narrower than 64 bits, a literal that parses as a
\* 64-bit integer is never a coercion error, also when it lies outside the range of
\* the field's type: the field holds the value modulo 2^w, read as signed for a
\* signed type; a literal outside the 64-bit range is a coercion error.
C22_NarrowTruncates ==
    OverlayRan =>
        \A f \in NarrowLeaves :
            (TextOf(f) # <<>> /\ \E n \in 1..Len(trace.lookups) : trace.lookups[n].path = f.path) =>
                /\ Denotes(f.field, TextOf(f)) =>
                       /\ ~(CoercionFailed /\ FailedLookup.path = f.path)
                       /\ OverlayCompleted => At(ResultView, f.path) = Coerced(f.field, TextOf(f))
                /\ ~Denotes(f.field, TextOf(f)) =>
                       /\ CoercionFailed /\ FailedLookup.path = f.path
                       /\ At(ResultView, f.path) = At(trace.afterFile, f.path)
                /\ (AllDigits(TextOf(f)) /\ Len(TextOf(f)) >= 20) =>
                       /\ CoercionFailed /\ FailedLookup.path = f.path
                       /\ Contains(ErrorText(result.err), "value out of range")
                /\ (AllDigits(TextOf(f)) /\ Len(TextOf(f)) <= 9) => ~(CoercionFailed /\ FailedLookup.path = f.path)

\* C22 witness: T_RETRIES holds 300, which no int8 holds; Build succeeds and the
\* field is 44
C22_Witness ==
    /\ Succeeded
    /\ builder.envPrefix = "T_"
    /\ Getenv(env, "T_RETRIES") = <<"3", "0", "0">>
    /\ ResultView.Retries = 44
    /\ DefaultView(pre.heap).Retries = 3

\* the variables that exist with an empty value when Build is entered and that a
\* .env file Build loaded defines with a non-empty value
EmptyButDefined ==
    { k \in DOMAIN pre.env :
        /\ pre.env[k] = <<>>
        /\ \E n \in 1..Len(trace.loaded) :
               LET file == EnvFileAt(trace.loaded[n][1], trace.loaded[n][2])
               IN  k \in DOMAIN file.vars /\ file.vars[k] # <<>> }

\* C23: a variable that exists with the empty string as its value before Build is
\* not overwritten by a .env file that defines it; the overlay finds it empty and
\* the field keeps its default or file value.
C23_EmptyNotOverwritten ==
    (result.done /\ ~result.touched) =>
        \A k \in EmptyButDefined :
            /\ k \in DOMAIN env /\ env[k] = <<>>
            /\ \A n \in 1..Len(trace.lookups) : trace.lookups[n].key = k => trace.lookups[n].value = <<>>
            /\ \A f \in TaggedLeaves(builder.envTag) :
                   ExpectedKey(f, builder.envPrefix, builder.envTag) = k =>
                       At(ResultView, f.path) = At(trace.afterFile, f.path)

\* C23 witness: T_APP_NAME exists and is empty, the loaded root .env gives it the
\* value root, and the built configuration has the file's app name
C23_Witness ==
    /\ Succeeded
    /\ "T_APP_NAME" \in EmptyButDefined
    /\ builder.envPrefix = "T_" /\ builder.envTag = "env" /\ builder.filepath.path = "conf.json"
    /\ \E n \in 1..Len(trace.lookups) : trace.lookups[n].key = "T_APP_NAME"
    /\ ResultView.AppName = <<"f", "i", "l", "e">>
    /\ ResultView.Port = 11

====
